---- MODULE Spec2Model ----
(***************************************************************************)
(* Resumable encode/decode engine of ilgda-ipc: the primitive and compound *)
(* wire codecs (src/src/serde/de.rs, ser.rs), the memoizing stage          *)
(* (src/src/serde/mod.rs) and the duplex stream wrapper (src/src/lib.rs).  *)
(*                                                                         *)
(* A scalar wider than one byte is written as the sequence of its base-256 *)
(* digits, most significant first (the value as a hexadecimal literal);    *)
(* to_ne_bytes / from_ne_bytes turn it into the in-memory byte image of    *)
(* the target.  A one-byte scalar is the one-element sequence holding its  *)
(* integer value.  A float is the record of its bit pattern.               *)
(***************************************************************************)
EXTENDS Integers, Sequences, FiniteSets, TLC

VARIABLES
    endian,     \* byte order of the target: "little" or "big"
    rwire,      \* every byte the peer will ever send on the read half
    rdel,       \* number of bytes of rwire the transport has received
    rpos,       \* number of bytes taken from the read transport
    rclosed,    \* the peer has closed: nothing more will be delivered
    rfail,      \* error the read transport returns on its next call, or "none"
    rop,        \* read operations by number (StageFuture over the read half)
    rres,       \* how the last read operation ended
    rown,       \* for each byte taken from the read half, the operation that took it
    wop,        \* write operations by number (StageFuture over the write half)
    wown,       \* for each byte of wout, the operation that wrote it
    wout,       \* bytes the write transport has accepted, in order
    wroom,      \* number of bytes the write transport can accept now
    wres,       \* how the last write operation ended
    wfail,      \* how the write transport fails its next call: "none", "Zero"
                \* (it accepts no byte) or the error it returns
    nops,       \* number of operations issued so far
    std,        \* the process's own standard streams: [stdin, stdout], TRUE
                \* for one that is attached to a pipe
    child,      \* the spawned child's handles: [stdout, stdin], TRUE for one
                \* that is there to take (Some), FALSE for None
    stream,     \* what the factory call returned, MadeNothing before it
    dir,        \* direction of the thread-bridged adapter: "recv" or "send"
    mailbox,    \* messages queued for the worker (crossbeam bounded channel)
    worker,     \* the worker thread: [pc, req]
    fut,        \* request of the future that borrows the adapter, 0 if none
    sig,        \* the one-shot signal of each request issued
    channel,    \* the inter-process channel: [n, closed, moved], the
                \* messages in it, whether the peer has disconnected, and
                \* the requests whose servicing moved a message through the
                \* adapter's end of it (sent it, or removed it), in order
    misuse,     \* the panic a call on the adapter ended in, "none" if none
    handle,     \* the adapter has not been dropped
    bpos,       \* bytes the blocking wrapper has taken from its input stream
    bout,       \* bytes the blocking wrapper has written, in order
    bwres,      \* what the blocking wrapper's write call returned
    brres,      \* what the blocking wrapper's read call returned
    peeked,     \* the last peek of the read half: where it was made, the
                \* bytes it showed and how many of them were consumed since
    task,       \* the operation a task awaits under the executor: [kind, ty,
                \* w, polls, pc], with every poll made of it
    wbuf,       \* bytes the BufWriter of the write half holds
    wcalls,     \* the typed writes made through the BufWriter, in call
                \* order: for each its number among TestWrites
    wflush      \* what the last poll_flush after the last typed write
                \* returned: "none", "Pending" or "Ok"

(* the factories' state, the adapter's state, the blocking wrapper's *)
(* state, the executor's state, the buffered write half's state       *)
fvars == <<std, child, stream>>
avars == <<dir, mailbox, worker, fut, sig, channel, misuse, handle>>
bvars == <<bpos, bout, bwres, brres>>
lvars == <<task>>
qvars == <<wbuf, wcalls, wflush>>

vars == <<endian, rwire, rdel, rpos, rclosed, rfail, rop, rres, rown,
          wop, wout, wroom, wfail, wres, wown, nops, fvars, avars, bvars,
          peeked, lvars, qvars>>

rvars == <<rwire, rdel, rpos, rclosed, rfail, rop, rres, rown>>
wvars == <<wop, wout, wroom, wfail, wres, wown>>

----------------------------------------------------------------------------
(* Bounds of the exploration *)

MaxOps == 2         \* operations issued in one run
MaxShort == 2       \* largest cap on what one transport call transfers
MaxLen == 3         \* longest payload, in bytes, among the test values
MaxRoom == 9        \* most bytes the write transport accepts ahead of a poll

(* size_of::<usize>() on the 64-bit target *)
WordSize == 8

----------------------------------------------------------------------------
(* Sequences and bytes *)

Min(a, b) == IF a < b THEN a ELSE b

Reverse(s) == [i \in 1..Len(s) |-> s[Len(s) + 1 - i]]

Zeros(n) == [i \in 1..n |-> 0]

RECURSIVE SumSeq(_)
SumSeq(s) == IF s = <<>> THEN 0 ELSE Head(s) + SumSeq(Tail(s))

RECURSIVE Concat(_)
Concat(ss) == IF ss = <<>> THEN <<>> ELSE Head(ss) \o Concat(Tail(ss))

(* slice of a sequence from index a (1-based) to the end: &s[a-1..] *)
From(s, a) == SubSeq(s, a, Len(s))

(* dst[at..at+len(src)] = src: what a read into &mut dst[at..] stores *)
Splice(dst, at, src) ==
    [i \in 1..Len(dst) |->
        IF i > at /\ i <= at + Len(src) THEN src[i - at] ELSE dst[i]]

(* marker of a byte of MaybeUninit storage that was never written *)
Uninit == -1

----------------------------------------------------------------------------
(* Scalars *)

(* <int>::to_ne_bytes: the in-memory image of the value on the target *)
to_ne_bytes(v) == IF endian = "little" THEN Reverse(v) ELSE v

(* <int>::from_be_bytes: the byte image read most significant byte first *)
from_be_bytes(b) == b

(* <int>::from_ne_bytes *)
from_ne_bytes(b) == IF endian = "little" THEN Reverse(b) ELSE b

(* f32::to_bits / f64::to_bits *)
to_bits(f) == f.bits

(* f32::from_bits / f64::from_bits *)
from_bits(b) == [bits |-> b]

(* `b as i8`, `b as u8` on the byte read by the 1-byte deserializer *)
as_byte_ty(b, signed) == IF signed /\ b >= 128 THEN b - 256 ELSE b

(* `self.byte as u8` in the 1-byte serializer *)
as_u8(n) == n % 256

(* numeric value of a usize given by its digits, most significant first *)
RECURSIVE as_usize(_)
as_usize(d) ==
    IF d = <<>> THEN 0 ELSE as_usize(SubSeq(d, 1, Len(d) - 1)) * 256 + d[Len(d)]

(* the usize with numeric value n (n < 256 in every test value) *)
usize_of(n) == Zeros(WordSize - 1) \o <<n>>

----------------------------------------------------------------------------
(* Results of a poll *)

Pending == [tag |-> "Pending", val |-> <<>>, err |-> "none"]
Ok(v) == [tag |-> "Ok", val |-> v, err |-> "none"]
Err(e) == [tag |-> "Err", val |-> <<>>, err |-> e]

----------------------------------------------------------------------------
(* The read transport (AsyncRead::poll_read) as one poll sees it.          *)
(* tr = [wire, pos, avail, eof, err, lim, calls, log]: avail bytes have    *)
(* been received and not taken; a call takes at least one and at most lim  *)
(* of them (a short read).  With nothing left to take, a transport that    *)
(* has failed returns its error, once; one whose peer has closed is Ready  *)
(* with no byte; any other is Pending.  log lists what every call of the   *)
(* poll returned.                                                          *)

Call(res, n, err) == [res |-> res, n |-> n, err |-> err]

poll_read(tr, cap) ==
    IF tr.avail > 0
    THEN LET n == Min(cap, Min(tr.avail, tr.lim))
         IN  [res |-> "Ready", err |-> "none",
              bytes |-> SubSeq(tr.wire, tr.pos + 1, tr.pos + n),
              tr |-> [tr EXCEPT !.pos = @ + n, !.avail = @ - n, !.calls = @ + 1,
                                !.log = Append(@, Call("Ready", n, "none"))]]
    ELSE IF tr.err # "none"
    THEN [res |-> "Err", err |-> tr.err, bytes |-> <<>>,
          tr |-> [tr EXCEPT !.err = "none", !.calls = @ + 1,
                            !.log = Append(@, Call("Err", 0, tr.err))]]
    ELSE IF tr.eof
    THEN [res |-> "Ready", err |-> "none", bytes |-> <<>>,
          tr |-> [tr EXCEPT !.calls = @ + 1,
                            !.log = Append(@, Call("Ready", 0, "none"))]]
    ELSE [res |-> "Pending", err |-> "none", bytes |-> <<>>,
          tr |-> [tr EXCEPT !.calls = @ + 1,
                            !.log = Append(@, Call("Pending", 0, "none"))]]

----------------------------------------------------------------------------
(* Memoizing stage (enum Stage): Pending holds the sub-operation,          *)
(* Completed holds its result.                                             *)

Stage_Pending(ft) == [done |-> FALSE, ft |-> ft, val |-> <<>>]
Stage_Completed(v) == [done |-> TRUE, ft |-> <<>>, val |-> v]

----------------------------------------------------------------------------
(* Primitive decoders (macros deserializer!, deserializer8!,               *)
(* floating_deserializer!).  A poll returns [st, tr, out]: the stage after *)
(* the poll, the transport after the poll and what the poll returned.      *)

(* [<$name Stage>]::new() of deserializer!: buf: [0; $bytes], read: 0 *)
deserializer_new(bytes) == [buf |-> Zeros(bytes), read |-> 0]

(* deserializer! reading into &mut this.buf[..] instead of *)
(* &mut this.buf[this.read..]                              *)
RECURSIVE deserializer_no_offset(_, _)
deserializer_no_offset(this, tr) ==
    IF this.read < Len(this.buf)
    THEN LET r == poll_read(tr, Len(this.buf) - this.read)
             n == Len(r.bytes)
         IN  IF r.res = "Err"
             THEN [st |-> this, tr |-> r.tr, out |-> Err(r.err)]
             ELSE IF r.res = "Pending"
             THEN [st |-> this, tr |-> r.tr, out |-> Pending]
             ELSE IF n = 0
             THEN [st |-> this, tr |-> r.tr, out |-> Err("UnexpectedEof")]
             ELSE deserializer_no_offset(
                      [this EXCEPT !.buf = Splice(@, 0, r.bytes),
                                   !.read = @ + n],
                      r.tr)
    ELSE [st |-> this, tr |-> tr, out |-> Ok(from_ne_bytes(this.buf))]

(* deserializer! testing for an empty read before it looks at the error *)
RECURSIVE deserializer_eof_first(_, _)
deserializer_eof_first(this, tr) ==
    IF this.read < Len(this.buf)
    THEN LET r == poll_read(tr, Len(this.buf) - this.read)
             n == Len(r.bytes)
         IN  IF r.res # "Pending" /\ n = 0
             THEN [st |-> this, tr |-> r.tr, out |-> Err("UnexpectedEof")]
             ELSE IF r.res = "Err"
             THEN [st |-> this, tr |-> r.tr, out |-> Err(r.err)]
             ELSE IF r.res = "Pending"
             THEN [st |-> this, tr |-> r.tr, out |-> Pending]
             ELSE deserializer_eof_first(
                      [this EXCEPT !.buf = Splice(@, this.read, r.bytes),
                                   !.read = @ + n],
                      r.tr)
    ELSE [st |-> this, tr |-> tr, out |-> Ok(from_ne_bytes(this.buf))]

RECURSIVE deserializer_poll_stage(_, _)
deserializer_poll_stage(this, tr) ==
    IF this.read < Len(this.buf)
    THEN LET r == poll_read(tr, Len(this.buf) - this.read)
             n == Len(r.bytes)
         IN  IF r.res = "Err"
             THEN [st |-> this, tr |-> r.tr, out |-> Err(r.err)]
             ELSE IF r.res = "Pending"
             THEN [st |-> this, tr |-> r.tr, out |-> Pending]
             ELSE IF n = 0
             THEN [st |-> this, tr |-> r.tr, out |-> Err("UnexpectedEof")]
             ELSE deserializer_poll_stage(
                      [this EXCEPT !.buf = Splice(@, this.read, r.bytes),
                                   !.read = @ + n],
                      r.tr)
    ELSE [st |-> this, tr |-> tr, out |-> Ok(from_ne_bytes(this.buf))]

(* deserializer8!: one read attempt into a 1-byte buffer, no kept state *)
deserializer8_poll_stage(signed, tr) ==
    LET r == poll_read(tr, 1)
    IN  IF r.res = "Err"
        THEN [st |-> <<>>, tr |-> r.tr, out |-> Err(r.err)]
        ELSE IF r.res = "Pending"
        THEN [st |-> <<>>, tr |-> r.tr, out |-> Pending]
        ELSE IF r.bytes = <<>>
        THEN [st |-> <<>>, tr |-> r.tr, out |-> Err("UnexpectedEof")]
        ELSE [st |-> <<>>, tr |-> r.tr,
              out |-> Ok(<<as_byte_ty(r.bytes[1], signed)>>)]

(* floating_deserializer!: the equal-width integer stage, then from_bits *)
floating_deserializer_poll_stage(this, tr) ==
    LET match(r) ==
            IF r.out.tag = "Ok"
            THEN [r EXCEPT !.out = Ok(from_bits(r.out.val))]
            ELSE r
    IN  match(deserializer_poll_stage(this, tr))

----------------------------------------------------------------------------
(* Length-prefixed decoders *)

(* uninit_vec::<T>(len), seen as its size_of::<T>() * len bytes of storage *)
uninit_vec(len, size_of_T) == [i \in 1..(len * size_of_T) |-> Uninit]

(* assume_vec_innit: the same storage handed out as initialized *)
assume_vec_innit(uninit) == uninit

(* must_cast_uninit_slice_mut: length in bytes of a slice of a.len() T's *)
must_cast_uninit_slice_mut(a_len, size_of_T) ==
    IF size_of_T = 1 THEN a_len ELSE a_len * (size_of_T \div 1)

(* DeserializeBytesStage::new / DeserializePrimitiveSliceStage::new *)
DeserializeBytesStage_new ==
    [len_fut |-> Stage_Pending(deserializer_new(WordSize)),
     data |-> <<>>, data_len |-> 0, filled |-> 0]

(* ready_up_data! polling the length stage once more when it failed *)
ready_up_data_retry(this, tr, size_of_T) ==
    LET ready(r, done) ==
            IF r.out.tag = "Ok"
            THEN [st |-> [this EXCEPT
                             !.data = uninit_vec(done, size_of_T),
                             !.data_len = done,
                             !.len_fut = Stage_Completed(done)],
                  tr |-> r.tr, ret |-> FALSE, out |-> Pending]
            ELSE [st |-> [this EXCEPT !.len_fut = Stage_Pending(r.st)],
                  tr |-> r.tr, ret |-> TRUE, out |-> r.out]
        match(r) == ready(r, as_usize(r.out.val))
        again(r) ==
            IF r.out.tag = "Err"
            THEN match(deserializer_poll_stage(r.st, r.tr))
            ELSE match(r)
    IN  IF ~this.len_fut.done
        THEN again(deserializer_poll_stage(this.len_fut.ft, tr))
        ELSE [st |-> this, tr |-> tr, ret |-> FALSE, out |-> Pending]

(* ready_up_data! without the memo: the length is read again on every *)
(* poll, whatever len_fut holds                                        *)
ready_up_data_unmemoized(this, tr, size_of_T) ==
    LET ready(r, done) ==
            IF r.out.tag = "Ok"
            THEN [st |-> [this EXCEPT
                             !.data = uninit_vec(done, size_of_T),
                             !.data_len = done,
                             !.len_fut = Stage_Completed(done)],
                  tr |-> r.tr, ret |-> FALSE, out |-> Pending]
            ELSE [st |-> IF this.len_fut.done THEN this
                         ELSE [this EXCEPT !.len_fut = Stage_Pending(r.st)],
                  tr |-> r.tr, ret |-> TRUE, out |-> r.out]
        match(r) == ready(r, as_usize(r.out.val))
    IN  match(deserializer_poll_stage(IF this.len_fut.done
                                      THEN deserializer_new(WordSize)
                                      ELSE this.len_fut.ft, tr))

(* macro ready_up_data!: ret = TRUE when the macro returns from the poll *)
ready_up_data(this, tr, size_of_T) ==
    LET ready(r, done) ==
            IF r.out.tag = "Ok"
            THEN [st |-> [this EXCEPT
                             !.data = uninit_vec(done, size_of_T),
                             !.data_len = done,
                             !.len_fut = Stage_Completed(done)],
                  tr |-> r.tr, ret |-> FALSE, out |-> Pending]
            ELSE [st |-> [this EXCEPT !.len_fut = Stage_Pending(r.st)],
                  tr |-> r.tr, ret |-> TRUE, out |-> r.out]
        match(r) == ready(r, as_usize(r.out.val))
    IN  IF ~this.len_fut.done
        THEN match(deserializer_poll_stage(this.len_fut.ft, tr))
        ELSE [st |-> this, tr |-> tr, ret |-> FALSE, out |-> Pending]

(* a fill loop that takes a zero-byte read for the end of the value *)
RECURSIVE fill_loop_no_eof(_, _, _)
fill_loop_no_eof(this, tr, size_of_T) ==
    LET total == this.data_len * size_of_T
    IN  IF this.filled < total
        THEN LET r == poll_read(tr, total - this.filled)
                 filled == Len(r.bytes)
             IN  IF r.res = "Err"
                 THEN [st |-> this, tr |-> r.tr, out |-> Err(r.err)]
                 ELSE IF r.res = "Pending"
                 THEN [st |-> this, tr |-> r.tr, out |-> Pending]
                 ELSE IF filled = 0
                 THEN [st |-> this, tr |-> r.tr,
                       out |-> Ok(SubSeq(this.data, 1, this.filled))]
                 ELSE fill_loop_no_eof(
                          [this EXCEPT !.data = Splice(@, this.filled, r.bytes),
                                       !.filled = @ + filled],
                          r.tr, size_of_T)
        ELSE [st |-> [this EXCEPT !.data = <<>>, !.data_len = 0],
              tr |-> tr, out |-> Ok(this.data)]

(* a fill loop that hands the storage over after one read, full or not *)
fill_loop_single_read(this, tr, size_of_T) ==
    LET total == must_cast_uninit_slice_mut(this.data_len, size_of_T)
        taken(r, st) ==
            IF r.res = "Err"
            THEN [st |-> this, tr |-> r.tr, out |-> Err(r.err)]
            ELSE IF r.res = "Pending"
            THEN [st |-> this, tr |-> r.tr, out |-> Pending]
            ELSE IF r.bytes = <<>>
            THEN [st |-> this, tr |-> r.tr, out |-> Err("UnexpectedEof")]
            ELSE [st |-> [st EXCEPT !.data = <<>>, !.data_len = 0],
                  tr |-> r.tr, out |-> Ok(assume_vec_innit(st.data))]
        read(r) ==
            taken(r, [this EXCEPT !.data = Splice(@, this.filled, r.bytes),
                                  !.filled = @ + Len(r.bytes)])
    IN  IF this.filled < total
        THEN read(poll_read(tr, total - this.filled))
        ELSE [st |-> [this EXCEPT !.data = <<>>, !.data_len = 0],
              tr |-> tr, out |-> Ok(assume_vec_innit(this.data))]

(* a fill loop that gives way after each read: with the storage not yet *)
(* full it returns not yet although the transport did not                *)
fill_loop_yielding(this, tr, size_of_T) ==
    LET total == must_cast_uninit_slice_mut(this.data_len, size_of_T)
        taken(r, st) ==
            IF r.res = "Err"
            THEN [st |-> this, tr |-> r.tr, out |-> Err(r.err)]
            ELSE IF r.res = "Pending"
            THEN [st |-> this, tr |-> r.tr, out |-> Pending]
            ELSE IF r.bytes = <<>>
            THEN [st |-> this, tr |-> r.tr, out |-> Err("UnexpectedEof")]
            ELSE IF st.filled < total
            THEN [st |-> st, tr |-> r.tr, out |-> Pending]
            ELSE [st |-> [st EXCEPT !.data = <<>>, !.data_len = 0],
                  tr |-> r.tr, out |-> Ok(assume_vec_innit(st.data))]
        read(r) ==
            taken(r, [this EXCEPT !.data = Splice(@, this.filled, r.bytes),
                                  !.filled = @ + Len(r.bytes)])
    IN  IF this.filled < total
        THEN read(poll_read(tr, total - this.filled))
        ELSE [st |-> [this EXCEPT !.data = <<>>, !.data_len = 0],
              tr |-> tr, out |-> Ok(assume_vec_innit(this.data))]

(* the fill loop shared by the byte buffer and the primitive array: *)
(* while this.filled < this.data.len() * size_of::<T>()              *)
RECURSIVE fill_loop(_, _, _)
fill_loop(this, tr, size_of_T) ==
    LET total == must_cast_uninit_slice_mut(this.data_len, size_of_T)
    IN  IF this.filled < this.data_len * size_of_T
        THEN LET r == poll_read(tr, total - this.filled)
                 filled == Len(r.bytes)
             IN  IF r.res = "Err"
                 THEN [st |-> this, tr |-> r.tr, out |-> Err(r.err)]
                 ELSE IF r.res = "Pending"
                 THEN [st |-> this, tr |-> r.tr, out |-> Pending]
                 ELSE IF filled = 0
                 THEN [st |-> this, tr |-> r.tr, out |-> Err("UnexpectedEof")]
                 ELSE fill_loop(
                          [this EXCEPT !.data = Splice(@, this.filled, r.bytes),
                                       !.filled = @ + filled],
                          r.tr, size_of_T)
        ELSE [st |-> [this EXCEPT !.data = <<>>, !.data_len = 0],  \* mem::take
              tr |-> tr, out |-> Ok(assume_vec_innit(this.data))]

DeserializeBytesStage_poll_stage(this, tr) ==
    LET fill(l) ==
            IF l.ret
            THEN [st |-> l.st, tr |-> l.tr, out |-> l.out]
            ELSE fill_loop(l.st, l.tr, 1)
    IN  fill(ready_up_data(this, tr, 1))

(* the Vec<T> seen through its bytes: element i is from_ne_bytes of its *)
(* size_of::<T>() bytes                                                  *)
vec_of_bytes(b, size_of_T) ==
    [i \in 1..(Len(b) \div size_of_T) |->
        from_ne_bytes(SubSeq(b, (i - 1) * size_of_T + 1, i * size_of_T))]

DeserializePrimitiveSliceStage_poll_stage(this, tr, size_of_T) ==
    LET vec(r) ==
            IF r.out.tag = "Ok"
            THEN [r EXCEPT !.out = Ok(vec_of_bytes(r.out.val, size_of_T))]
            ELSE r
        fill(l) ==
            IF l.ret
            THEN [st |-> l.st, tr |-> l.tr, out |-> l.out]
            ELSE vec(fill_loop(l.st, l.tr, size_of_T))
    IN  fill(ready_up_data(this, tr, size_of_T))

----------------------------------------------------------------------------
(* String decoder *)

IsCont(b) == b >= 128 /\ b <= 191

(* simdutf8::basic::string::from_utf8: TRUE iff the bytes are well-formed *)
(* UTF-8 (RFC 3629: no overlong form, no surrogate, nothing above 10FFFF) *)
RECURSIVE from_utf8(_)
from_utf8(b) ==
    IF b = <<>> THEN TRUE
    ELSE LET n == Len(b)
             b1 == b[1]
         IN  IF b1 <= 127 THEN from_utf8(Tail(b))
             ELSE IF b1 >= 194 /\ b1 <= 223
             THEN n >= 2 /\ IsCont(b[2]) /\ from_utf8(From(b, 3))
             ELSE IF b1 >= 224 /\ b1 <= 239
             THEN /\ n >= 3
                  /\ IsCont(b[2]) /\ IsCont(b[3])
                  /\ (b1 = 224 => b[2] >= 160)
                  /\ (b1 = 237 => b[2] <= 159)
                  /\ from_utf8(From(b, 4))
             ELSE IF b1 >= 240 /\ b1 <= 244
             THEN /\ n >= 4
                  /\ IsCont(b[2]) /\ IsCont(b[3]) /\ IsCont(b[4])
                  /\ (b1 = 240 => b[2] >= 144)
                  /\ (b1 = 244 => b[2] <= 143)
                  /\ from_utf8(From(b, 5))
             ELSE FALSE

(* a string decoder that skips the validation *)
DeserializeStringStage_unchecked(this, tr) ==
    DeserializeBytesStage_poll_stage(this, tr)

(* a string decoder that validates what has arrived so far: a first byte *)
(* that starts no UTF-8 sequence fails the decode at once                *)
DeserializeStringStage_streaming(this, tr) ==
    LET match(r) ==
            IF r.out.tag = "Ok"
            THEN IF from_utf8(r.out.val)
                 THEN r
                 ELSE [r EXCEPT !.out = Err("InvalidData")]
            ELSE IF /\ r.out.tag = "Pending"
                    /\ r.st.filled > 0
                    /\ ~(r.st.data[1] <= 127
                             \/ (r.st.data[1] >= 194 /\ r.st.data[1] <= 244))
            THEN [r EXCEPT !.out = Err("InvalidData")]
            ELSE r
    IN  match(DeserializeBytesStage_poll_stage(this, tr))

DeserializeStringStage_poll_stage(this, tr) ==
    LET match(r) ==
            IF r.out.tag = "Ok"
            THEN IF from_utf8(r.out.val)
                 THEN r
                 ELSE [r EXCEPT !.out = Err("InvalidData")]
            ELSE r
    IN  match(DeserializeBytesStage_poll_stage(this, tr))

----------------------------------------------------------------------------
(* Type descriptors and the leaf dispatch (trait AsyncDe)                  *)
(*   [k |-> "byte", signed]   u8 / i8                                      *)
(*   [k |-> "int", w]         u16..u128, i16..i128, usize, isize           *)
(*   [k |-> "float", w]       f32 / f64                                    *)
(*   [k |-> "bytes"], [k |-> "str"], [k |-> "slice", w]                    *)
(*   [k |-> "option", t], [k |-> "result", t, e]   t, e one of the above   *)

U8 == [k |-> "byte", signed |-> FALSE]
I8 == [k |-> "byte", signed |-> TRUE]
IntTy(w) == [k |-> "int", w |-> w]
FloatTy(w) == [k |-> "float", w |-> w]
BytesTy == [k |-> "bytes"]
StrTy == [k |-> "str"]
SliceTy(w) == [k |-> "slice", w |-> w]
OptionTy(t) == [k |-> "option", t |-> t]
ResultTy(t, e) == [k |-> "result", t |-> t, e |-> e]

(* the types a read or a write may be issued with *)
DeTypes ==
    {U8, I8, IntTy(2), IntTy(4), IntTy(WordSize), FloatTy(4), FloatTy(8),
     BytesTy, StrTy, SliceTy(2),
     OptionTy(U8), OptionTy(IntTy(2)), OptionTy(StrTy), OptionTy(BytesTy),
     ResultTy(IntTy(2), U8), ResultTy(StrTy, U8)}

(* AsyncDe::read_from_stage for the leaf types *)
read_from_stage(ty) ==
    CASE ty.k = "byte" -> <<>>
      [] ty.k = "int" -> deserializer_new(ty.w)
      [] ty.k = "float" -> deserializer_new(ty.w)
      [] OTHER -> DeserializeBytesStage_new

(* StagePoller::poll_stage of the leaf stage of type ty *)
leaf_poll_stage(ty, this, tr) ==
    CASE ty.k = "byte" -> deserializer8_poll_stage(ty.signed, tr)
      [] ty.k = "int" -> deserializer_poll_stage(this, tr)
      [] ty.k = "float" -> floating_deserializer_poll_stage(this, tr)
      [] ty.k = "bytes" -> DeserializeBytesStage_poll_stage(this, tr)
      [] ty.k = "str" -> DeserializeStringStage_poll_stage(this, tr)
      [] ty.k = "slice" -> DeserializePrimitiveSliceStage_poll_stage(this, tr, ty.w)

----------------------------------------------------------------------------
(* Optional and outcome decoders.  this = [state, inner]: state is the     *)
(* enum variant, inner the payload stage it holds.                         *)

DeserializeOption_new == [state |-> "DiscriminatorPending", inner |-> <<>>]

(* Some(v) is <<v>>, None is <<>> *)
Some(v) == <<v>>
None == <<>>

(* macro poll_pending! *)
poll_pending(ty, state, pending, tr) ==
    LET match(r) ==
            [st |-> [state |-> state, inner |-> r.st], tr |-> r.tr,
             out |-> IF r.out.tag = "Ok" THEN Ok(Some(r.out.val)) ELSE r.out]
    IN  match(leaf_poll_stage(ty, pending, tr))

(* an optional decoder that takes every non-zero discriminator for Some *)
DeserializeOption_nonzero(ty, this, tr) ==
    IF this.state = "DiscriminatorPending"
    THEN LET r == deserializer8_poll_stage(FALSE, tr)
         IN  IF r.out.tag = "Ok"
             THEN IF r.out.val[1] = 0
                  THEN [st |-> this, tr |-> r.tr, out |-> Ok(None)]
                  ELSE poll_pending(ty.t, "Pending", read_from_stage(ty.t), r.tr)
             ELSE [st |-> this, tr |-> r.tr, out |-> r.out]
    ELSE poll_pending(ty.t, "Pending", this.inner, tr)

(* an optional decoder that does not move to Pending: *this is left as *)
(* it was when the payload is first polled                              *)
DeserializeOption_forgetful(ty, this, tr) ==
    LET stay(r) == [r EXCEPT !.st = this]
        match(r) ==
            IF r.out.tag = "Ok"
            THEN CASE r.out.val[1] = 1 ->
                          stay(poll_pending(ty.t, "Pending",
                                            read_from_stage(ty.t), r.tr))
                   [] r.out.val[1] = 0 ->
                          [st |-> this, tr |-> r.tr, out |-> Ok(None)]
                   [] OTHER ->
                          [st |-> this, tr |-> r.tr, out |-> Err("InvalidData")]
            ELSE [st |-> this, tr |-> r.tr, out |-> r.out]
    IN  IF this.state = "DiscriminatorPending"
        THEN match(deserializer8_poll_stage(FALSE, tr))
        ELSE poll_pending(ty.t, "Pending", this.inner, tr)

DeserializeOption_poll_stage(ty, this, tr) ==
    LET match(r) ==
            IF r.out.tag = "Ok"
            THEN CASE r.out.val[1] = 1 ->
                          poll_pending(ty.t, "Pending", read_from_stage(ty.t), r.tr)
                   [] r.out.val[1] = 0 ->
                          [st |-> this, tr |-> r.tr, out |-> Ok(None)]
                   [] OTHER ->
                          [st |-> this, tr |-> r.tr, out |-> Err("InvalidData")]
            ELSE [st |-> this, tr |-> r.tr, out |-> r.out]
    IN  IF this.state = "DiscriminatorPending"
        THEN match(deserializer8_poll_stage(FALSE, tr))
        ELSE poll_pending(ty.t, "Pending", this.inner, tr)

DeserializeResult_new == [state |-> "DiscriminatorPending", inner |-> <<>>]

(* Ok(v) of the decoded outcome is <<"Ok", v>>, Err(v) is <<"Err", v>> *)
ResOk(v) == <<"Ok", v>>
ResErr(v) == <<"Err", v>>

(* macro poll_t_pending! *)
poll_t_pending(ty, pending, tr) ==
    LET match(r) ==
            [st |-> [state |-> "PendingT", inner |-> r.st], tr |-> r.tr,
             out |-> IF r.out.tag = "Ok" THEN Ok(ResOk(r.out.val)) ELSE r.out]
    IN  match(leaf_poll_stage(ty, pending, tr))

(* macro poll_e_pending! *)
poll_e_pending(ty, pending, tr) ==
    LET match(r) ==
            [st |-> [state |-> "PendingE", inner |-> r.st], tr |-> r.tr,
             out |-> IF r.out.tag = "Ok" THEN Ok(ResErr(r.out.val)) ELSE r.out]
    IN  match(leaf_poll_stage(ty, pending, tr))

(* an outcome decoder that takes the discriminator 1 for the failure *)
DeserializeResult_swapped(ty, this, tr) ==
    LET match(r) ==
            IF r.out.tag = "Ok"
            THEN CASE r.out.val[1] = 0 ->
                          poll_t_pending(ty.t, read_from_stage(ty.t), r.tr)
                   [] r.out.val[1] = 1 ->
                          poll_e_pending(ty.e, read_from_stage(ty.e), r.tr)
                   [] OTHER ->
                          [st |-> this, tr |-> r.tr, out |-> Err("InvalidData")]
            ELSE [st |-> this, tr |-> r.tr, out |-> r.out]
    IN  CASE this.state = "DiscriminatorPending" ->
                 match(deserializer8_poll_stage(FALSE, tr))
          [] this.state = "PendingT" -> poll_t_pending(ty.t, this.inner, tr)
          [] this.state = "PendingE" -> poll_e_pending(ty.e, this.inner, tr)

DeserializeResult_poll_stage(ty, this, tr) ==
    LET match(r) ==
            IF r.out.tag = "Ok"
            THEN CASE r.out.val[1] = 1 ->
                          poll_t_pending(ty.t, read_from_stage(ty.t), r.tr)
                   [] r.out.val[1] = 0 ->
                          poll_e_pending(ty.e, read_from_stage(ty.e), r.tr)
                   [] OTHER ->
                          [st |-> this, tr |-> r.tr, out |-> Err("InvalidData")]
            ELSE [st |-> this, tr |-> r.tr, out |-> r.out]
    IN  CASE this.state = "DiscriminatorPending" ->
                 match(deserializer8_poll_stage(FALSE, tr))
          [] this.state = "PendingT" -> poll_t_pending(ty.t, this.inner, tr)
          [] this.state = "PendingE" -> poll_e_pending(ty.e, this.inner, tr)

(* the stage a read of type ty starts from *)
de_new(ty) ==
    CASE ty.k = "option" -> DeserializeOption_new
      [] ty.k = "result" -> DeserializeResult_new
      [] OTHER -> read_from_stage(ty)

(* StageFuture::poll on a read: poll_stage of the stage of type ty *)
de_poll_stage(ty, this, tr) ==
    CASE ty.k = "option" -> DeserializeOption_poll_stage(ty, this, tr)
      [] ty.k = "result" -> DeserializeResult_poll_stage(ty, this, tr)
      [] OTHER -> leaf_poll_stage(ty, this, tr)

----------------------------------------------------------------------------
(* The write transport (AsyncWrite::poll_write) as one poll sees it.       *)
(* tw = [out, room, fail, lim, calls, log]: the transport can accept room  *)
(* more bytes; a call accepts at least one and at most lim bytes of the    *)
(* buffer (a partial write).  With no room, a transport that has failed    *)
(* returns its error, once, or ("Zero") is Ready with no byte accepted;    *)
(* any other is Pending.  log lists, for every call of the poll, the       *)
(* buffer it was given, the offset of out it wrote at and what it          *)
(* returned.                                                               *)

Attempt(tw, buf, res, n, err) ==
    [buf |-> buf, at |-> Len(tw.out), res |-> res, n |-> n, err |-> err]

poll_write(tw, buf) ==
    IF tw.room > 0
    THEN LET n == Min(Len(buf), Min(tw.room, tw.lim))
         IN  [res |-> "Ready", err |-> "none", n |-> n,
              tw |-> [tw EXCEPT !.out = @ \o SubSeq(buf, 1, n),
                                !.room = @ - n, !.calls = @ + 1,
                                !.log = Append(@, Attempt(tw, buf, "Ready", n,
                                                          "none"))]]
    ELSE IF tw.fail = "Zero"
    THEN [res |-> "Ready", err |-> "none", n |-> 0,
          tw |-> [tw EXCEPT !.fail = "none", !.calls = @ + 1,
                            !.log = Append(@, Attempt(tw, buf, "Ready", 0,
                                                      "none"))]]
    ELSE IF tw.fail # "none"
    THEN [res |-> "Err", err |-> tw.fail, n |-> 0,
          tw |-> [tw EXCEPT !.fail = "none", !.calls = @ + 1,
                            !.log = Append(@, Attempt(tw, buf, "Err", 0,
                                                      tw.fail))]]
    ELSE [res |-> "Pending", err |-> "none", n |-> 0,
          tw |-> [tw EXCEPT !.calls = @ + 1,
                            !.log = Append(@, Attempt(tw, buf, "Pending", 0,
                                                      "none"))]]

----------------------------------------------------------------------------
(* Primitive encoders (macros serializer!, serializer8!,                   *)
(* floating_serializer!).  A poll returns [st, tw, out].                   *)

(* [<$name Stage>]::new(value) of serializer!: buf: value.to_ne_bytes() *)
serializer_new(value) == [buf |-> to_ne_bytes(value), written |-> 0]

(* serializer! taking a write of zero bytes for a transport not ready *)
RECURSIVE serializer_zero_pending(_, _)
serializer_zero_pending(this, tw) ==
    IF this.written < Len(this.buf)
    THEN LET r == poll_write(tw, From(this.buf, this.written + 1))
         IN  IF r.res = "Err"
             THEN [st |-> this, tw |-> r.tw, out |-> Err(r.err)]
             ELSE IF r.res = "Pending" \/ r.n = 0
             THEN [st |-> this, tw |-> r.tw, out |-> Pending]
             ELSE serializer_zero_pending([this EXCEPT !.written = @ + r.n], r.tw)
    ELSE [st |-> this, tw |-> tw, out |-> Ok(<<>>)]

(* serializer! advancing its cursor by the bytes it offered, not by the *)
(* bytes the transport accepted                                         *)
RECURSIVE serializer_counts_offered(_, _)
serializer_counts_offered(this, tw) ==
    IF this.written < Len(this.buf)
    THEN LET r == poll_write(tw, From(this.buf, this.written + 1))
         IN  IF r.res = "Err"
             THEN [st |-> this, tw |-> r.tw, out |-> Err(r.err)]
             ELSE IF r.res = "Pending"
             THEN [st |-> this, tw |-> r.tw, out |-> Pending]
             ELSE IF r.n = 0
             THEN [st |-> this, tw |-> r.tw, out |-> Err("WriteZero")]
             ELSE serializer_counts_offered(
                      [this EXCEPT !.written = Len(this.buf)], r.tw)
    ELSE [st |-> this, tw |-> tw, out |-> Ok(<<>>)]

RECURSIVE serializer_poll_stage(_, _)
serializer_poll_stage(this, tw) ==
    IF this.written < Len(this.buf)
    THEN LET r == poll_write(tw, From(this.buf, this.written + 1))
         IN  IF r.res = "Err"
             THEN [st |-> this, tw |-> r.tw, out |-> Err(r.err)]
             ELSE IF r.res = "Pending"
             THEN [st |-> this, tw |-> r.tw, out |-> Pending]
             ELSE IF r.n = 0
             THEN [st |-> this, tw |-> r.tw, out |-> Err("WriteZero")]
             ELSE serializer_poll_stage([this EXCEPT !.written = @ + r.n], r.tw)
    ELSE [st |-> this, tw |-> tw, out |-> Ok(<<>>)]

(* [<$name Stage>]::new(byte) of serializer8! *)
serializer8_new(byte) == [byte |-> byte[1]]

(* serializer8!: one write attempt of the single byte, no kept progress *)
serializer8_poll_stage(this, tw) ==
    LET buf == <<as_u8(this.byte)>>
        r == poll_write(tw, buf)
    IN  IF r.res = "Err"
        THEN [st |-> this, tw |-> r.tw, out |-> Err(r.err)]
        ELSE IF r.res = "Pending"
        THEN [st |-> this, tw |-> r.tw, out |-> Pending]
        ELSE IF r.n = 0
        THEN [st |-> this, tw |-> r.tw, out |-> Err("WriteZero")]
        ELSE [st |-> this, tw |-> r.tw, out |-> Ok(<<>>)]

(* [<$name Stage>]::new(value) of floating_serializer! *)
floating_serializer_new(value) == serializer_new(to_bits(value))

floating_serializer_poll_stage(this, tw) == serializer_poll_stage(this, tw)

----------------------------------------------------------------------------
(* Length-prefixed encoders *)

(* macro resolve_stage!: ret = TRUE when the macro returns from the poll *)
resolve_stage(stage, tw) ==
    LET match(r) ==
            IF r.out.tag = "Ok"
            THEN [stage |-> Stage_Completed(r.out.val), tw |-> r.tw,
                  ret |-> FALSE, out |-> Pending]
            ELSE [stage |-> Stage_Pending(r.st), tw |-> r.tw,
                  ret |-> TRUE, out |-> r.out]
    IN  IF ~stage.done
        THEN match(serializer_poll_stage(stage.ft, tw))
        ELSE [stage |-> stage, tw |-> tw, ret |-> FALSE, out |-> Pending]

(* SerializeBytes::new(buf) *)
SerializeBytes_new(buf) ==
    [len_fut |-> Stage_Pending(serializer_new(usize_of(Len(buf)))), buf |-> buf]

(* SerializeBytes with `if` for `while`: a partial write is not retried *)
write_once(this, tw) ==
    IF this.buf # <<>>
    THEN LET r == poll_write(tw, this.buf)
         IN  IF r.res = "Err"
             THEN [st |-> this, tw |-> r.tw, out |-> Err(r.err)]
             ELSE IF r.res = "Pending"
             THEN [st |-> this, tw |-> r.tw, out |-> Pending]
             ELSE IF r.n = 0
             THEN [st |-> this, tw |-> r.tw, out |-> Err("WriteZero")]
             ELSE [st |-> [this EXCEPT !.buf = From(@, r.n + 1)], tw |-> r.tw,
                   out |-> Ok(<<>>)]
    ELSE [st |-> this, tw |-> tw, out |-> Ok(<<>>)]

(* a write loop that calls the transport before it looks at the buffer *)
write_loop_unguarded(this, tw) ==
    LET called(r) ==
            [st |-> this, tw |-> r.tw,
             out |-> IF r.res = "Pending" THEN Pending ELSE Ok(<<>>)]
    IN  IF this.buf # <<>>
        THEN write_once(this, tw)
        ELSE called(poll_write(tw, <<>>))

(* the write loop of SerializeBytes: while !this.buf.is_empty() *)
RECURSIVE write_loop(_, _)
write_loop(this, tw) ==
    IF this.buf # <<>>
    THEN LET r == poll_write(tw, this.buf)
         IN  IF r.res = "Err"
             THEN [st |-> this, tw |-> r.tw, out |-> Err(r.err)]
             ELSE IF r.res = "Pending"
             THEN [st |-> this, tw |-> r.tw, out |-> Pending]
             ELSE IF r.n = 0
             THEN [st |-> this, tw |-> r.tw, out |-> Err("WriteZero")]
             ELSE write_loop([this EXCEPT !.buf = From(@, r.n + 1)], r.tw)
    ELSE [st |-> this, tw |-> tw, out |-> Ok(<<>>)]

(* SerializeBytes with the two steps in the other order: the payload is *)
(* written first, the length after it                                   *)
SerializeBytes_payload_first(this, tw) ==
    LET length(l, st) ==
            [st |-> [st EXCEPT !.len_fut = l.stage], tw |-> l.tw,
             out |-> IF l.ret THEN l.out ELSE Ok(<<>>)]
        write(w) ==
            IF w.out.tag = "Ok"
            THEN length(resolve_stage(this.len_fut, w.tw), w.st)
            ELSE w
    IN  write(write_loop(this, tw))

SerializeBytes_poll_stage(this, tw) ==
    LET write(l) ==
            IF l.ret
            THEN [st |-> [this EXCEPT !.len_fut = l.stage], tw |-> l.tw,
                  out |-> l.out]
            ELSE write_loop([this EXCEPT !.len_fut = l.stage], l.tw)
    IN  write(resolve_stage(this.len_fut, tw))

(* bytemuck::must_cast_slice: the elements' bytes, in memory order *)
must_cast_slice(buf) == Concat([i \in 1..Len(buf) |-> to_ne_bytes(buf[i])])

(* SerializePrimitiveSlice with the length of the cast bytes for prefix *)
SerializePrimitiveSlice_byte_count(buf) ==
    [len_fut |-> Stage_Pending(serializer_new(
                     usize_of(Len(must_cast_slice(buf))))),
     buf |-> must_cast_slice(buf)]

(* SerializePrimitiveSlice::new(buf): the prefix is the element count *)
SerializePrimitiveSlice_new(buf) ==
    [len_fut |-> Stage_Pending(serializer_new(usize_of(Len(buf)))),
     buf |-> must_cast_slice(buf)]

SerializePrimitiveSlice_poll_stage(this, tw) == SerializeBytes_poll_stage(this, tw)

----------------------------------------------------------------------------
(* The leaf dispatch of the encoders (trait AsyncSer) *)

(* write_to_stage with str framed by its number of chars *)
write_to_stage_chars(ty, val) ==
    CASE ty.k = "byte" -> serializer8_new(val)
      [] ty.k = "int" -> serializer_new(val)
      [] ty.k = "float" -> floating_serializer_new(val)
      [] ty.k = "bytes" -> SerializeBytes_new(val)
      [] ty.k = "str" ->
             [len_fut |-> Stage_Pending(serializer_new(usize_of(
                              Cardinality({k \in 1..Len(val) : ~IsCont(val[k])})))),
              buf |-> val]
      [] ty.k = "slice" -> SerializePrimitiveSlice_new(val)

(* AsyncSer::write_to_stage for the leaf types; str is its UTF-8 bytes *)
write_to_stage(ty, val) ==
    CASE ty.k = "byte" -> serializer8_new(val)
      [] ty.k = "int" -> serializer_new(val)
      [] ty.k = "float" -> floating_serializer_new(val)
      [] ty.k = "bytes" -> SerializeBytes_new(val)
      [] ty.k = "str" -> SerializeBytes_new(val)
      [] ty.k = "slice" -> SerializePrimitiveSlice_new(val)

leaf_ser_poll_stage(ty, this, tw) ==
    CASE ty.k = "byte" -> serializer8_poll_stage(this, tw)
      [] ty.k = "int" -> serializer_poll_stage(this, tw)
      [] ty.k = "float" -> floating_serializer_poll_stage(this, tw)
      [] ty.k = "bytes" -> SerializeBytes_poll_stage(this, tw)
      [] ty.k = "str" -> SerializeBytes_poll_stage(this, tw)
      [] ty.k = "slice" -> SerializePrimitiveSlice_poll_stage(this, tw)

----------------------------------------------------------------------------
(* Optional and outcome encoders.  this = [completed_state_stage, tag,     *)
(* data]: tag is the variant of the value (is_some / is_ok), data its      *)
(* payload stage.                                                          *)

(* SerializeOption::new(data): data.map(T::write_to_stage) *)
SerializeOption_new(ty, data) ==
    [completed_state_stage |-> FALSE,
     tag |-> IF data = None THEN 0 ELSE 1,
     data |-> IF data = None THEN <<>> ELSE write_to_stage(ty.t, data[1])]

(* SerializeOption without its discriminator stage *)
SerializeOption_no_discriminator(ty, this, tw) ==
    LET payload(r) ==
            [st |-> [this EXCEPT !.completed_state_stage = TRUE, !.data = r.st],
             tw |-> r.tw, out |-> r.out]
    IN  IF this.tag = 0
        THEN [st |-> [this EXCEPT !.completed_state_stage = TRUE],
              tw |-> tw, out |-> Ok(<<>>)]
        ELSE payload(leaf_ser_poll_stage(ty.t, this.data, tw))

(* SerializeOption that never marks its discriminator stage done: the *)
(* stage is rebuilt, and the byte written, on every poll              *)
SerializeOption_never_marked(ty, this, tw) ==
    LET payload(r) ==
            [st |-> [this EXCEPT !.data = r.st], tw |-> r.tw, out |-> r.out]
        match(d) ==
            IF d.out.tag # "Ok"
            THEN [st |-> this, tw |-> d.tw, out |-> d.out]
            ELSE IF this.tag = 0
            THEN [st |-> this, tw |-> d.tw, out |-> Ok(<<>>)]
            ELSE payload(leaf_ser_poll_stage(ty.t, this.data, d.tw))
    IN  match(serializer8_poll_stage(serializer8_new(<<this.tag>>), tw))

SerializeOption_poll_stage(ty, this, tw) ==
    LET payload(r) ==
            [st |-> [this EXCEPT !.completed_state_stage = TRUE, !.data = r.st],
             tw |-> r.tw, out |-> r.out]
        match(d) ==
            IF d.out.tag # "Ok"
            THEN [st |-> this, tw |-> d.tw, out |-> d.out]
            ELSE IF this.tag = 0
            THEN [st |-> [this EXCEPT !.completed_state_stage = TRUE],
                  tw |-> d.tw, out |-> Ok(<<>>)]
            ELSE payload(leaf_ser_poll_stage(ty.t, this.data, d.tw))
    IN  match(IF ~this.completed_state_stage
              THEN serializer8_poll_stage(serializer8_new(<<this.tag>>), tw)
              ELSE [st |-> <<>>, tw |-> tw, out |-> Ok(<<>>)])

(* SerializeResult::new(data): data.map(T::write_to_stage)
                                   .map_err(E::write_to_stage) *)
SerializeResult_new(ty, data) ==
    [completed_state_stage |-> FALSE,
     tag |-> IF data[1] = "Ok" THEN 1 ELSE 0,
     data |-> IF data[1] = "Ok" THEN write_to_stage(ty.t, data[2])
                                ELSE write_to_stage(ty.e, data[2])]

SerializeResult_poll_stage(ty, this, tw) ==
    LET payload(r) ==
            [st |-> [this EXCEPT !.completed_state_stage = TRUE, !.data = r.st],
             tw |-> r.tw, out |-> r.out]
        match(d) ==
            IF d.out.tag # "Ok"
            THEN [st |-> this, tw |-> d.tw, out |-> d.out]
            ELSE payload(leaf_ser_poll_stage(IF this.tag = 0 THEN ty.e ELSE ty.t,
                                             this.data, d.tw))
    IN  match(IF ~this.completed_state_stage
              THEN serializer8_poll_stage(serializer8_new(<<this.tag>>), tw)
              ELSE [st |-> <<>>, tw |-> tw, out |-> Ok(<<>>)])

(* the stage a write of val as type ty starts from *)
ser_new(ty, val) ==
    CASE ty.k = "option" -> SerializeOption_new(ty, val)
      [] ty.k = "result" -> SerializeResult_new(ty, val)
      [] OTHER -> write_to_stage(ty, val)

(* StageFuture::poll on a write: poll_stage of the stage of type ty *)
ser_poll_stage(ty, this, tw) ==
    CASE ty.k = "option" -> SerializeOption_poll_stage(ty, this, tw)
      [] ty.k = "result" -> SerializeResult_poll_stage(ty, this, tw)
      [] OTHER -> leaf_ser_poll_stage(ty, this, tw)

----------------------------------------------------------------------------
(* Test inputs *)

(* a length prefix with value n followed by payload p, in native order *)
LenPrefixed(n, p) == to_ne_bytes(usize_of(n)) \o p

(* payloads: empty, "h", "é", an invalid pair, "€", three bytes the first *)
(* of which is no UTF-8 at all, "hi!\n"                                  *)
TestPayloads ==
    {p \in {<<>>, <<104>>, <<195, 169>>, <<195, 104>>, <<226, 130, 172>>,
            <<255, 104, 105>>, <<104, 105, 33, 10>>} : Len(p) <= MaxLen}

(* trailing bytes after the first value: what a second operation reads *)
TestTail == <<1, 7>>

(* the types a second read is issued with *)
TailTypes == {U8, IntTy(2)}

(* streams the peer may send on the read half, each with the types the *)
(* first read of the stream is issued with                             *)
TestCases ==
    {[wire |-> LenPrefixed(Len(p), p) \o TestTail, tys |-> {BytesTy, StrTy}] :
        p \in TestPayloads}
    \cup
    {[wire |-> to_ne_bytes(<<17, 34, 51, 68>>) \o TestTail,
      tys |-> {IntTy(4), IntTy(2)}],
     [wire |-> to_ne_bytes(<<255, 192, 0, 1>>) \o TestTail,
      tys |-> {FloatTy(4)}],
     [wire |-> to_ne_bytes(<<1, 2, 3, 4, 5, 6, 7, 8>>) \o TestTail,
      tys |-> {IntTy(WordSize), FloatTy(8)}],
     [wire |-> LenPrefixed(2, to_ne_bytes(<<17, 34>>) \o to_ne_bytes(<<51, 68>>))
                  \o TestTail,
      tys |-> {SliceTy(2)}],
     [wire |-> LenPrefixed(0, <<>>) \o TestTail,
      tys |-> {SliceTy(2)}],
     [wire |-> <<0>> \o TestTail,
      tys |-> {OptionTy(U8), OptionTy(StrTy), ResultTy(IntTy(2), U8)}],
     [wire |-> <<2>> \o TestTail,
      tys |-> {OptionTy(U8), OptionTy(StrTy), ResultTy(IntTy(2), U8)}],
     [wire |-> <<200>> \o TestTail,
      tys |-> {U8, I8, OptionTy(U8)}],
     [wire |-> <<1>> \o LenPrefixed(2, <<195, 169>>) \o TestTail,
      tys |-> {OptionTy(StrTy), ResultTy(StrTy, U8)}],
     [wire |-> <<1>> \o LenPrefixed(1, <<169>>) \o TestTail,
      tys |-> {OptionTy(StrTy), OptionTy(BytesTy)}],
     [wire |-> <<1>> \o to_ne_bytes(<<17, 34>>) \o TestTail,
      tys |-> {OptionTy(IntTy(2)), ResultTy(IntTy(2), U8)}]}

(* the reads the exploration issues: the first read of a stream has one of *)
(* the types listed with the stream, a later one a type of TailTypes       *)
Planned(ty) ==
    IF nops = 0
    THEN \E c \in TestCases : c.wire = rwire /\ ty \in c.tys
    ELSE ty \in TailTypes

----------------------------------------------------------------------------
(* The read half *)

NoOp == [alive |-> FALSE]
NoOps == [i \in 1..MaxOps |-> NoOp]
NoRes == [valid |-> FALSE]

(* what an operation remembers of the operation that ended before it *)
Brief(res) ==
    IF res.valid
    THEN [valid |-> TRUE, how |-> res.how, ty |-> res.ty, end |-> res.end,
          err |-> IF res.out.tag = "Err" THEN res.out.err ELSE ""]
    ELSE [valid |-> FALSE]

(* the operations that hold a borrow of the read half, of the write half *)
RLive == {i \in 1..MaxOps : rop[i].alive}
WLive == {i \in 1..MaxOps : wop[i].alive}

(* a run of n bytes moved by operation i *)
Owned(i, n) == [k \in 1..n |-> i]

(* a future that shares its stream with other live futures *)
shared_borrow(live) == TRUE

(* StageFuture { shared: &'a mut S::Shared }: the future can be made only *)
(* while no other borrow of the same stream is live                       *)
exclusive_borrow(live) == live = {}

(* the transport keeps the waker of a poll whose last call on it returned *)
(* Pending, and wakes the task when it can go on                          *)
Registered(log) == log # <<>> /\ log[Len(log)].res = "Pending"

(* the transport as a poll of the read half sees it, short reads capped *)
(* at lim bytes                                                         *)
ReadTransport(lim) ==
    [wire |-> rwire, pos |-> rpos, avail |-> rdel - rpos, eof |-> rclosed,
     err |-> rfail, lim |-> lim, calls |-> 0, log |-> <<>>]

(* AsyncDe::read_from(stream): a StageFuture that borrows the read half *)
read_from(ty) ==
    /\ exclusive_borrow(RLive)
    /\ nops < MaxOps
    /\ rop' = [rop EXCEPT ![nops + 1] =
                  [alive |-> TRUE, ty |-> ty, st |-> de_new(ty),
                   start |-> rpos, mid |-> FALSE, starved |-> FALSE,
                   after |-> Brief(rres)]]
    /\ rres' = NoRes
    /\ nops' = nops + 1
    /\ UNCHANGED <<lvars, qvars, endian, fvars, avars, bvars, peeked, rwire, rdel, rpos, rclosed, rfail, rown>>

(* StageFuture::poll on live read i: a completed future is consumed *)
PollRead(i, lim) ==
    /\ rop[i].alive
    /\ LET polled(r) ==
               /\ rpos' = r.tr.pos
               /\ rfail' = r.tr.err
               /\ rown' = rown \o Owned(i, r.tr.pos - rpos)
               /\ IF r.out.tag = "Pending"
                  THEN /\ rop' = [rop EXCEPT
                                     ![i].st = r.st,
                                     ![i].mid = @ \/ r.tr.pos > rop[i].start,
                                     ![i].starved = @ \/ r.tr.pos = rpos]
                       /\ UNCHANGED rres
                  ELSE /\ rop' = [rop EXCEPT ![i] = NoOp]
                       /\ rres' = [valid |-> TRUE, how |-> "done", id |-> i,
                                   ty |-> rop[i].ty,
                                   start |-> rop[i].start, end |-> r.tr.pos,
                                   out |-> r.out, calls |-> r.tr.calls,
                                   mid |-> rop[i].mid, starved |-> rop[i].starved,
                                   after |-> rop[i].after]
       IN  polled(de_poll_stage(rop[i].ty, rop[i].st, ReadTransport(lim)))
    /\ UNCHANGED <<lvars, qvars, endian, fvars, avars, bvars, peeked, rwire, rdel, rclosed, nops>>

(* a drop that hands the bytes the future took back to the stream *)
DropRead_undo(i) ==
    /\ rop[i].alive
    /\ rop' = [rop EXCEPT ![i] = NoOp]
    /\ rres' = [valid |-> TRUE, how |-> "dropped", id |-> i, ty |-> rop[i].ty,
                start |-> rop[i].start, end |-> rpos, out |-> Pending,
                calls |-> 0,
                mid |-> rop[i].mid, starved |-> rop[i].starved,
                after |-> rop[i].after]
    /\ rpos' = rop[i].start
    /\ rown' = SubSeq(rown, 1, rop[i].start)
    /\ UNCHANGED <<lvars, qvars, endian, fvars, avars, bvars, peeked, rwire, rdel, rclosed, rfail, nops>>

(* live read future i is dropped before it completed *)
DropRead(i) ==
    /\ rop[i].alive
    /\ rop' = [rop EXCEPT ![i] = NoOp]
    /\ rres' = [valid |-> TRUE, how |-> "dropped", id |-> i, ty |-> rop[i].ty,
                start |-> rop[i].start, end |-> rpos, out |-> Pending,
                calls |-> 0,
                mid |-> rop[i].mid, starved |-> rop[i].starved,
                after |-> rop[i].after]
    /\ UNCHANGED <<lvars, qvars, endian, fvars, avars, bvars, peeked, rwire, rdel, rpos, rclosed, rfail, rown, nops>>

(* the transport receives the next n bytes of the peer's stream *)
Deliver(n) ==
    /\ ~rclosed
    /\ rdel + n <= Len(rwire)
    /\ rdel' = rdel + n
    /\ UNCHANGED <<lvars, qvars, endian, fvars, avars, bvars, peeked, rwire, rpos, rclosed, rfail, rop, rres, rown, nops>>

(* the peer closes its end, possibly in the middle of a value *)
CloseRead ==
    /\ ~rclosed
    /\ rclosed' = TRUE
    /\ UNCHANGED <<lvars, qvars, endian, fvars, avars, bvars, peeked, rwire, rdel, rpos, rfail, rop, rres, rown, nops>>

(* error kinds a transport fails with *)
TransportErrors == {"BrokenPipe", "ConnectionReset"}

(* the read transport fails: its next call with nothing to take returns e *)
FailRead(e) ==
    /\ rfail = "none"
    /\ rfail' = e
    /\ UNCHANGED <<lvars, qvars, endian, fvars, avars, bvars, peeked, rwire, rdel, rpos, rclosed, rop, rres, rown, nops>>

(* the caps on a short transfer the exploration uses *)
Lims == 1..MaxShort \cup {4 * WordSize}

----------------------------------------------------------------------------
(* The write half *)

(* the payloads as a sequence *)
RECURSIVE SeqOf(_)
SeqOf(S) ==
    IF S = {} THEN <<>>
    ELSE LET x == CHOOSE y \in S : TRUE IN <<x>> \o SeqOf(S \ {x})

ValuesOf(ty, ps) == [i \in 1..Len(ps) |-> [ty |-> ty, val |-> ps[i]]]

(* values a write may be issued with; a second write is issued with one *)
(* of the first TailWrites of them                                       *)
TestWrites ==
    <<[ty |-> U8, val |-> <<7>>],
      [ty |-> IntTy(2), val |-> <<17, 34>>],
      [ty |-> U8, val |-> <<200>>],
      [ty |-> I8, val |-> <<-3>>]>>
    \o ValuesOf(BytesTy, SeqOf(TestPayloads))
    \o ValuesOf(StrTy, SeqOf({q \in TestPayloads : from_utf8(q)}))
    \o
    <<
      [ty |-> IntTy(4), val |-> <<17, 34, 51, 68>>],
      [ty |-> IntTy(WordSize), val |-> <<1, 2, 3, 4, 5, 6, 7, 8>>],
      [ty |-> IntTy(16),
       val |-> <<1, 2, 3, 4, 5, 6, 7, 8, 9, 10, 11, 12, 13, 14, 15, 16>>],
      [ty |-> FloatTy(4), val |-> [bits |-> <<255, 192, 0, 1>>]],
      [ty |-> FloatTy(4), val |-> [bits |-> <<128, 0, 0, 0>>]],
      [ty |-> FloatTy(8), val |-> [bits |-> <<127, 248, 0, 0, 0, 0, 0, 1>>]],
      [ty |-> SliceTy(2), val |-> <<<<17, 34>>, <<51, 68>>>>],
      [ty |-> OptionTy(U8), val |-> None],
      [ty |-> OptionTy(U8), val |-> Some(<<7>>)],
      [ty |-> OptionTy(StrTy), val |-> Some(<<195, 169>>)],
      [ty |-> ResultTy(IntTy(2), U8), val |-> ResErr(<<7>>)],
      [ty |-> ResultTy(IntTy(2), U8), val |-> ResOk(<<17, 34>>)]>>

TailWrites == 2

(* the writes the exploration issues *)
PlannedWrite(i) == nops = 0 \/ i <= TailWrites

(* the transport as a poll of the write half sees it, partial writes *)
(* capped at lim bytes                                               *)
WriteTransport(lim) ==
    [out |-> wout, room |-> wroom, fail |-> wfail, lim |-> lim, calls |-> 0,
     log |-> <<>>]

(* AsyncSer::write_to(value, stream): a StageFuture that borrows the *)
(* write half                                                        *)
write_to(ty, val) ==
    /\ exclusive_borrow(WLive)
    /\ nops < MaxOps
    /\ wop' = [wop EXCEPT ![nops + 1] =
                  [alive |-> TRUE, ty |-> ty, val |-> val,
                   st |-> ser_new(ty, val),
                   start |-> Len(wout), mid |-> FALSE, starved |-> FALSE,
                   after |-> Brief(wres)]]
    /\ wres' = NoRes
    /\ nops' = nops + 1
    /\ UNCHANGED <<lvars, qvars, endian, fvars, avars, bvars, peeked, wout, wroom, wfail, wown>>

(* StageFuture::poll on live write i: a completed future is consumed *)
PollWrite(i, lim) ==
    /\ wop[i].alive
    /\ LET polled(r) ==
               /\ wout' = r.tw.out
               /\ wroom' = r.tw.room
               /\ wfail' = r.tw.fail
               /\ wown' = wown \o Owned(i, Len(r.tw.out) - Len(wout))
               /\ IF r.out.tag = "Pending"
                  THEN /\ wop' = [wop EXCEPT
                                     ![i].st = r.st,
                                     ![i].mid = @ \/ Len(r.tw.out) > wop[i].start,
                                     ![i].starved = @ \/ r.tw.out = wout]
                       /\ UNCHANGED wres
                  ELSE /\ wop' = [wop EXCEPT ![i] = NoOp]
                       /\ wres' = [valid |-> TRUE, how |-> "done", id |-> i,
                                   ty |-> wop[i].ty, val |-> wop[i].val,
                                   start |-> wop[i].start, end |-> Len(r.tw.out),
                                   out |-> r.out,
                                   mid |-> wop[i].mid, starved |-> wop[i].starved,
                                   after |-> wop[i].after]
       IN  polled(ser_poll_stage(wop[i].ty, wop[i].st, WriteTransport(lim)))
    /\ UNCHANGED <<lvars, qvars, endian, fvars, avars, bvars, peeked, nops>>

(* live write future i is dropped before it completed *)
DropWrite(i) ==
    /\ wop[i].alive
    /\ wop' = [wop EXCEPT ![i] = NoOp]
    /\ wres' = [valid |-> TRUE, how |-> "dropped", id |-> i, ty |-> wop[i].ty,
                val |-> wop[i].val,
                start |-> wop[i].start, end |-> Len(wout), out |-> Pending,
                mid |-> wop[i].mid, starved |-> wop[i].starved,
                after |-> wop[i].after]
    /\ UNCHANGED <<lvars, qvars, endian, fvars, avars, bvars, peeked, wout, wroom, wfail, wown, nops>>

(* the write transport gets room for n more bytes *)
Grant(n) ==
    /\ wroom + n <= MaxRoom
    /\ wroom' = wroom + n
    /\ UNCHANGED <<lvars, qvars, endian, fvars, avars, bvars, peeked, wop, wout, wfail, wres, wown, nops>>

(* the write transport fails: its next call with no room returns e, or *)
(* (e = "Zero") accepts no byte                                        *)
FailWrite(e) ==
    /\ wfail = "none"
    /\ wfail' = e
    /\ UNCHANGED <<lvars, qvars, endian, fvars, avars, bvars, peeked, wop, wout, wroom, wres, wown, nops>>

----------------------------------------------------------------------------
(* One operation awaited by a task under the executor *)

(* the task awaits nothing.  Otherwise kind is "read" or "write", ty the *)
(* type, w the number of the value written among TestWrites, lim the cap *)
(* of the transport on one transfer, polls the polls made of the         *)
(* StageFuture: for each the number of bytes the transport had received  *)
(* (or had accepted and had room for); pc is "new" before the first      *)
(* poll, "parked" after a poll returned Pending and left the task's      *)
(* waker with the transport, "asleep" after one that returned Pending    *)
(* and left no waker, "done" after the poll that returned Ready          *)
NoTask ==
    [kind |-> "none", ty |-> U8, w |-> 0, lim |-> 1, polls |-> <<>>,
     pc |-> "new"]

RECURSIVE ReadAfter(_, _, _)
(* StageFuture::poll, once per entry of polls, on a read of type ty made *)
(* at the start of the stream: what the last poll returned               *)
ReadAfter(ty, lim, polls) ==
    IF polls = <<>>
    THEN [st |-> de_new(ty), tr |-> [pos |-> 0], out |-> Pending]
    ELSE LET next(b) ==
                 de_poll_stage(ty, b.st,
                               [wire |-> rwire, pos |-> b.tr.pos,
                                avail |-> polls[Len(polls)] - b.tr.pos,
                                eof |-> FALSE, err |-> "none", lim |-> lim,
                                calls |-> 0, log |-> <<>>])
         IN  next(ReadAfter(ty, lim, SubSeq(polls, 1, Len(polls) - 1)))

RECURSIVE WriteAfter(_, _, _, _)
(* StageFuture::poll, once per entry of polls, on a write of val as type *)
(* ty to the fresh write half: what the last poll returned               *)
WriteAfter(ty, val, lim, polls) ==
    IF polls = <<>>
    THEN [st |-> ser_new(ty, val), tw |-> [out |-> <<>>], out |-> Pending]
    ELSE LET next(b) ==
                 ser_poll_stage(ty, b.st,
                                [out |-> b.tw.out,
                                 room |-> polls[Len(polls)] - Len(b.tw.out),
                                 fail |-> "none", lim |-> lim,
                                 calls |-> 0, log |-> <<>>])
         IN  next(WriteAfter(ty, val, lim,
                             SubSeq(polls, 1, Len(polls) - 1)))

(* what the operation of the task has returned so far *)
TaskRead == ReadAfter(task.ty, task.lim, task.polls)
TaskWrite ==
    WriteAfter(task.ty, TestWrites[task.w].val, task.lim, task.polls)

(* where a poll that returned out after the transport calls of log *)
(* leaves the task                                                 *)
Parks(out, log) ==
    IF out.tag # "Pending" THEN "done"
    ELSE IF Registered(log) THEN "parked" ELSE "asleep"

(* the task awaits AsyncDe::read_from(stream) on a fresh read half *)
await_read(ty, lim) ==
    /\ task.kind = "none"
    /\ rwire # <<>>
    /\ task' = [kind |-> "read", ty |-> ty, w |-> 0, lim |-> lim,
                polls |-> <<>>, pc |-> "new"]
    /\ UNCHANGED <<qvars, endian, rvars, wvars, nops, fvars, avars, bvars,
                   peeked>>

(* the task awaits AsyncSer::write_to(value, stream) on a fresh write half *)
await_write(w, lim) ==
    /\ task.kind = "none"
    /\ rwire = <<>>
    /\ task' = [kind |-> "write", ty |-> TestWrites[w].ty, w |-> w,
                lim |-> lim, polls |-> <<>>, pc |-> "new"]
    /\ UNCHANGED <<qvars, endian, rvars, wvars, nops, fvars, avars, bvars,
                   peeked>>

(* the transport holds the waker of the task and can go on *)
Woken ==
    /\ task.pc = "parked"
    /\ \/ task.kind = "read" /\ rdel > rpos
       \/ task.kind = "write" /\ wroom > 0

(* the executor polls a task when it is first awaited and when it is *)
(* woken: the read the task awaits is polled                         *)
RunRead ==
    /\ task.kind = "read"
    /\ task.pc = "new" \/ Woken
    /\ LET polls == Append(task.polls, rdel)
           polled(r) ==
               /\ rpos' = r.tr.pos
               /\ task' = [task EXCEPT !.polls = polls,
                                       !.pc = Parks(r.out, r.tr.log)]
       IN  polled(ReadAfter(task.ty, task.lim, polls))
    /\ UNCHANGED <<qvars, endian, rwire, rdel, rclosed, rfail, rop, rres, rown,
                   wvars, nops, fvars, avars, bvars, peeked>>

(* the write the task awaits is polled *)
RunWrite ==
    /\ task.kind = "write"
    /\ task.pc = "new" \/ Woken
    /\ LET polls == Append(task.polls, Len(wout) + wroom)
           polled(r) ==
               /\ wout' = r.tw.out
               /\ wroom' = r.tw.room
               /\ task' = [task EXCEPT !.polls = polls,
                                       !.pc = Parks(r.out, r.tw.log)]
       IN  polled(WriteAfter(task.ty, TestWrites[task.w].val, task.lim,
                             polls))
    /\ UNCHANGED <<qvars, endian, rvars, wop, wfail, wres, wown, nops, fvars,
                   avars, bvars, peeked>>

----------------------------------------------------------------------------
(* Factories *)

(* what a factory call returned: by names the factory ("none" before any *)
(* call), some tells a wrapper from nothing; had_r and had_w record       *)
(* whether the read handle and the write handle were there at the call    *)
Made(by, had_r, had_w, some) ==
    [by |-> by, had_r |-> had_r, had_w |-> had_w, some |-> some]

Unmade == Made("none", FALSE, FALSE, FALSE)

Handles == [stdout : BOOLEAN, stdin : BOOLEAN]

(* IpcStream::connect_to_child as if the write handle were optional *)
connect_to_child_stdout_only ==
    /\ ~stream.some
    /\ stream' = Made("connect_to_child", child.stdout, child.stdin,
                      child.stdout)
    /\ child' = [stdout |-> FALSE,
                 stdin |-> IF child.stdout THEN FALSE ELSE child.stdin]
    /\ UNCHANGED <<lvars, qvars, endian, rvars, wvars, nops, std, avars, bvars, peeked>>

(* IpcStream::parent_stream(): a wrapper over stdin() and stdout(), *)
(* whatever they are attached to                                    *)
parent_stream ==
    /\ stream = Unmade
    /\ stream' = Made("parent_stream", std.stdin, std.stdout, TRUE)
    /\ UNCHANGED <<lvars, qvars, endian, rvars, wvars, nops, std, child, avars, bvars, peeked>>

(* IpcStream::connect_to_child(child): child.stdout.take()? and then   *)
(* child.stdin.take()?; a handle that was taken is gone from the child, *)
(* and the first None ends the call                                    *)
connect_to_child ==
    /\ ~stream.some
    /\ stream' = Made("connect_to_child", child.stdout, child.stdin,
                      child.stdout /\ child.stdin)
    /\ child' = [stdout |-> FALSE,
                 stdin |-> IF child.stdout THEN FALSE ELSE child.stdin]
    /\ UNCHANGED <<lvars, qvars, endian, rvars, wvars, nops, std, avars, bvars, peeked>>

(* a wrapper made by parent_stream of a process whose standard streams *)
(* are both attached, no child spawned                                 *)
Attached ==
    /\ std = [stdin |-> TRUE, stdout |-> TRUE]
    /\ child = [stdout |-> FALSE, stdin |-> FALSE]
    /\ stream = Made("parent_stream", TRUE, TRUE, TRUE)

(* BufWriter::new(write half): nothing held, nothing written or flushed *)
Unbuffered ==
    /\ wbuf = <<>>
    /\ wcalls = <<>>
    /\ wflush = "none"

(* the blocking wrapper has done nothing, the read half was not peeked *)
NoPeek == [valid |-> FALSE]

NoBlocking ==
    /\ bpos = 0
    /\ bout = <<>>
    /\ bwres = NoRes
    /\ brres = NoRes
    /\ peeked = NoPeek

(* no thread-bridged adapter has been made *)
NoAdapter ==
    /\ dir = "none"
    /\ mailbox = <<>>
    /\ worker = [pc |-> "exited", req |-> 0]
    /\ fut = 0
    /\ sig = <<>>
    /\ channel = [n |-> 0, closed |-> FALSE, moved |-> <<>>]
    /\ misuse = "none"
    /\ handle = FALSE

----------------------------------------------------------------------------
(* Specifications *)

WriteIdle ==
    /\ wop = NoOps
    /\ wout = <<>>
    /\ wroom = 0
    /\ wfail = "none"
    /\ wres = NoRes
    /\ wown = <<>>

ReadIdle ==
    /\ rwire = <<>>
    /\ rdel = 0
    /\ rpos = 0
    /\ rclosed = FALSE
    /\ rfail = "none"
    /\ rop = NoOps
    /\ rres = NoRes
    /\ rown = <<>>

InitRead ==
    /\ endian \in {"little", "big"}
    /\ rwire \in {c.wire : c \in TestCases}
    /\ rdel = 0
    /\ rpos = 0
    /\ rclosed = FALSE
    /\ rfail = "none"
    /\ rop = NoOps
    /\ rres = NoRes
    /\ rown = <<>>
    /\ nops = 0
    /\ task = NoTask
    /\ Unbuffered
    /\ WriteIdle
    /\ Attached
    /\ NoAdapter
    /\ NoBlocking

NextRead ==
    \/ \E ty \in DeTypes : Planned(ty) /\ read_from(ty) /\ UNCHANGED wvars
    \/ \E i \in 1..MaxOps, lim \in Lims : PollRead(i, lim) /\ UNCHANGED wvars
    \/ \E i \in 1..MaxOps : DropRead(i) /\ UNCHANGED wvars
    \/ \E n \in 1..Len(rwire) : Deliver(n) /\ UNCHANGED wvars
    \/ CloseRead /\ UNCHANGED wvars

SpecRead == InitRead /\ [][NextRead]_vars

(* the write half alone *)
InitWrite ==
    /\ endian \in {"little", "big"}
    /\ nops = 0
    /\ task = NoTask
    /\ Unbuffered
    /\ ReadIdle
    /\ WriteIdle
    /\ Attached
    /\ NoAdapter
    /\ NoBlocking

NextWrite ==
    \/ \E i \in 1..Len(TestWrites) :
           /\ PlannedWrite(i)
           /\ write_to(TestWrites[i].ty, TestWrites[i].val)
           /\ UNCHANGED rvars
    \/ \E i \in 1..MaxOps, lim \in Lims : PollWrite(i, lim) /\ UNCHANGED rvars
    \/ \E i \in 1..MaxOps : DropWrite(i) /\ UNCHANGED rvars
    \/ \E n \in 1..MaxRoom : Grant(n) /\ UNCHANGED rvars

SpecWrite == InitWrite /\ [][NextWrite]_vars

(* the write half feeding the read half of the peer's wrapper: the peer's *)
(* stream is what the write transport has accepted, and the peer reads a  *)
(* written value with the type it was written with                        *)
InitLoop == InitWrite

PeerType(ty) == wres.valid /\ wres.how = "done" /\ wres.ty = ty

NextLoop ==
    \/ \E i \in 1..Len(TestWrites) :
           /\ nops = 0
           /\ write_to(TestWrites[i].ty, TestWrites[i].val)
           /\ UNCHANGED rvars
    \/ \E i \in 1..MaxOps, lim \in Lims :
           /\ PollWrite(i, lim)
           /\ rwire' = wout'
           /\ UNCHANGED <<rdel, rpos, rclosed, rfail, rop, rres, rown>>
    \/ \E n \in 1..MaxRoom : WLive # {} /\ Grant(n) /\ UNCHANGED rvars
    \/ \E ty \in DeTypes \cup {IntTy(16)} :
           PeerType(ty) /\ read_from(ty) /\ UNCHANGED wvars
    \/ \E i \in 1..MaxOps, lim \in Lims : PollRead(i, lim) /\ UNCHANGED wvars
    \/ \E n \in 1..MaxRoom : WLive = {} /\ Deliver(n) /\ UNCHANGED wvars

SpecLoop == InitLoop /\ [][NextLoop]_vars

(* either half over a transport that may fail: a run reads one value of a *)
(* stream the peer sends, or (the peer sends nothing) writes one value     *)
InitFault ==
    /\ endian = "little"
    /\ rwire \in {c.wire : c \in TestCases} \cup {<<>>}
    /\ rdel = 0
    /\ rpos = 0
    /\ rclosed = FALSE
    /\ rfail = "none"
    /\ rop = NoOps
    /\ rres = NoRes
    /\ rown = <<>>
    /\ nops = 0
    /\ task = NoTask
    /\ Unbuffered
    /\ WriteIdle
    /\ Attached
    /\ NoAdapter
    /\ NoBlocking

NextFault ==
    \/ \E ty \in DeTypes :
           nops = 0 /\ Planned(ty) /\ read_from(ty) /\ UNCHANGED wvars
    \/ \E i \in 1..MaxOps, lim \in Lims : PollRead(i, lim) /\ UNCHANGED wvars
    \/ \E n \in 1..Len(rwire) : Deliver(n) /\ UNCHANGED wvars
    \/ CloseRead /\ rwire # <<>> /\ UNCHANGED wvars
    \/ \E e \in TransportErrors : FailRead(e) /\ rwire # <<>> /\ UNCHANGED wvars
    \/ \E i \in 1..Len(TestWrites) :
           /\ nops = 0 /\ rwire = <<>>
           /\ write_to(TestWrites[i].ty, TestWrites[i].val)
           /\ UNCHANGED rvars
    \/ \E i \in 1..MaxOps, lim \in Lims : PollWrite(i, lim) /\ UNCHANGED rvars
    \/ \E n \in 1..MaxRoom : WLive # {} /\ Grant(n) /\ UNCHANGED rvars
    \/ \E e \in TransportErrors \cup {"Zero"} :
           WLive # {} /\ FailWrite(e) /\ UNCHANGED rvars

SpecFault == InitFault /\ [][NextFault]_vars

(* one operation on either half, over a transport that neither fails *)
(* nor closes, awaited by a task.  The transport receives every byte  *)
(* of the peer's stream and makes room for every byte of a write in   *)
(* the end: all at once, or once the task has been polled in pieces   *)
(* of LivePieces bytes, each piece after the task has run on the one  *)
(* before; the executor runs a task that is ready to run              *)
InitLive == InitFault

LiveLims == {1, 4 * WordSize}
LivePieces == {1}

LiveDeliver ==
    \E n \in LivePieces \cup {Len(rwire) - rdel} :
        /\ task.kind = "read" /\ ~Woken
        /\ n > 0 /\ (task.pc = "new" => n = Len(rwire) - rdel)
        /\ Deliver(n) /\ UNCHANGED wvars
LiveGrant ==
    \E n \in LivePieces \cup {MaxRoom - wroom} :
        /\ task.kind = "write" /\ ~Woken
        /\ n > 0 /\ (task.pc = "new" => n = MaxRoom - wroom)
        /\ Grant(n) /\ UNCHANGED rvars
LiveRun == RunRead \/ RunWrite

NextLive ==
    \/ \E ty \in DeTypes, lim \in LiveLims : Planned(ty) /\ await_read(ty, lim)
    \/ \E w \in 1..Len(TestWrites), lim \in LiveLims : await_write(w, lim)
    \/ RunRead
    \/ RunWrite
    \/ LiveDeliver
    \/ LiveGrant

(* LiveRun is enabled: a poll returns, and adds itself to task.polls *)
RunDue == task.kind \in {"read", "write"} /\ (task.pc = "new" \/ Woken)

(* weak fairness of the transport's steps and of the executor's: the *)
(* last conjunct is WF_vars(LiveRun) with ENABLED written out        *)
LiveFair ==
    /\ WF_vars(LiveDeliver)
    /\ WF_vars(LiveGrant)
    /\ []<>(~RunDue) \/ []<><<LiveRun>>_vars

SpecLive == InitLive /\ [][NextLive]_vars /\ LiveFair

----------------------------------------------------------------------------
(* The duplex wrapper: typed operations issued through IpcStream methods *)

(* the types IpcStream has a read_ and a write_ method for *)
WrapperTypes ==
    {U8, I8, IntTy(2), IntTy(4), IntTy(WordSize), IntTy(16),
     FloatTy(4), FloatTy(8), BytesTy, StrTy}

(* IpcStream::read_<type>(&mut self), read_buf, read_str: the future *)
(* borrows the wrapper and reads from its read half                  *)
IpcStream_read(ty) ==
    /\ ty \in WrapperTypes
    /\ exclusive_borrow(RLive \cup WLive)
    /\ read_from(ty)
    /\ UNCHANGED wvars

(* IpcStream::write_<type>(&mut self, val), write_buf, write_str: the *)
(* future borrows the wrapper and writes to its write half            *)
IpcStream_write(ty, val) ==
    /\ ty \in WrapperTypes
    /\ exclusive_borrow(RLive \cup WLive)
    /\ write_to(ty, val)
    /\ UNCHANGED rvars

(* the stream the peer sends to the wrapper: a framed 'é', then the tail *)
DuplexWires == {LenPrefixed(2, <<195, 169>>) \o TestTail}

(* a read at the start of the stream reads the frame as a byte buffer, a *)
(* read further on a 2-byte integer                                      *)
PlannedRead(ty) == IF rpos = 0 THEN ty = BytesTy ELSE ty = IntTy(2)

(* the values the wrapper writes: the buffer holding 'é' on a fresh *)
(* write half, a 2-byte integer at any time                         *)
DuplexWrite(i) ==
    \/ TestWrites[i].ty = IntTy(2)
    \/ wout = <<>> /\ TestWrites[i].ty = BytesTy
                   /\ TestWrites[i].val = <<195, 169>>

Init ==
    /\ endian = "little"
    /\ rwire \in DuplexWires
    /\ rdel = 0
    /\ rpos = 0
    /\ rclosed = FALSE
    /\ rfail = "none"
    /\ rop = NoOps
    /\ rres = NoRes
    /\ rown = <<>>
    /\ nops = 0
    /\ task = NoTask
    /\ Unbuffered
    /\ WriteIdle
    /\ Attached
    /\ NoAdapter
    /\ NoBlocking

Next ==
    \/ \E ty \in WrapperTypes : PlannedRead(ty) /\ IpcStream_read(ty)
    \/ \E i \in 1..Len(TestWrites) :
           /\ DuplexWrite(i)
           /\ IpcStream_write(TestWrites[i].ty, TestWrites[i].val)
    \/ \E i \in 1..MaxOps, lim \in Lims : PollRead(i, lim) /\ UNCHANGED wvars
    \/ \E i \in 1..MaxOps, lim \in Lims : PollWrite(i, lim) /\ UNCHANGED rvars
    \/ \E i \in 1..MaxOps : DropRead(i) /\ UNCHANGED wvars
    \/ \E i \in 1..MaxOps : DropWrite(i) /\ UNCHANGED rvars
    \/ \E n \in {1, Len(rwire) - rdel} \ {0} :
           RLive # {} /\ rdel = rpos /\ Deliver(n) /\ UNCHANGED wvars
    \/ \E n \in {1, MaxRoom} :
           WLive # {} /\ wroom = 0 /\ Grant(n) /\ UNCHANGED rvars

Spec == Init /\ [][Next]_vars

----------------------------------------------------------------------------
(* The buffered write half: IpcStream::write_stream is a tokio BufWriter  *)
(* around the transport, and the typed writes and poll_flush go to it.    *)
(* bw = [buf, inner, ok]: the bytes the BufWriter holds, the bytes it has *)
(* passed to the transport so far, and whether every call on it so far    *)
(* returned what a BufWriter can return.                                  *)

(* capacity of the BufWriter *)
BufCap == 10

(* BufWriter::poll_write for the call a (its buffer, what it returned and *)
(* the number of bytes it took): data that does not fit with what is held *)
(* waits for flush_buf to pass on all that is held; data of at least the  *)
(* capacity then goes to the transport, which may take a part of it, any  *)
(* other is held whole.  A call returns Pending when flush_buf or the     *)
(* transport does, flush_buf after passing on j of the bytes held.        *)
BufWriter_poll_write(bw, a, j) ==
    LET L == Len(a.buf)
        full == Len(bw.buf) + L > BufCap
        buf == IF full THEN <<>> ELSE bw.buf
        inner == IF full THEN bw.inner \o bw.buf ELSE bw.inner
    IN  IF a.res = "Pending"
        THEN [ok |-> /\ bw.ok /\ full /\ j <= Len(bw.buf)
                     /\ (j = Len(bw.buf) => L >= BufCap),
              buf |-> SubSeq(bw.buf, Min(j, Len(bw.buf)) + 1, Len(bw.buf)),
              inner |-> bw.inner \o SubSeq(bw.buf, 1, Min(j, Len(bw.buf)))]
        ELSE IF L >= BufCap
        THEN [ok |-> bw.ok /\ a.res = "Ready" /\ a.n >= 1,
              buf |-> buf,
              inner |-> inner \o SubSeq(a.buf, 1, a.n)]
        ELSE [ok |-> bw.ok /\ a.res = "Ready" /\ a.n = L,
              buf |-> buf \o a.buf,
              inner |-> inner]

RECURSIVE BufWriter_calls(_, _, _)
(* the BufWriter after the poll_write calls of log, in order *)
BufWriter_calls(bw, log, j) ==
    IF log = <<>> THEN bw
    ELSE BufWriter_calls(BufWriter_poll_write(bw, Head(log), j), Tail(log), j)

(* IpcStream::write_<type>, write_buf, write_str: a StageFuture that *)
(* borrows write_stream, the BufWriter                               *)
IpcStream_write_buffered(w) ==
    /\ TestWrites[w].ty \in WrapperTypes
    /\ exclusive_borrow(WLive)
    /\ nops < MaxOps
    /\ wop' = [wop EXCEPT ![nops + 1] =
                  [alive |-> TRUE, ty |-> TestWrites[w].ty,
                   val |-> TestWrites[w].val,
                   st |-> ser_new(TestWrites[w].ty, TestWrites[w].val),
                   start |-> Len(wout), mid |-> FALSE, starved |-> FALSE,
                   after |-> Brief(wres)]]
    /\ wres' = NoRes
    /\ nops' = nops + 1
    /\ wcalls' = Append(wcalls, w)
    /\ wflush' = "none"
    /\ UNCHANGED <<lvars, endian, fvars, avars, bvars, peeked, rvars, wout,
                   wroom, wfail, wown, wbuf>>

(* StageFuture::poll on live write i over the BufWriter: wout is what *)
(* the BufWriter has taken, rwire what has reached the transport      *)
PollBuffered(i, lim, j) ==
    /\ wop[i].alive
    /\ LET polled(r) ==
               /\ wout' = r.tw.out
               /\ wroom' = r.tw.room
               /\ wfail' = r.tw.fail
               /\ wown' = wown \o Owned(i, Len(r.tw.out) - Len(wout))
               /\ IF r.out.tag = "Pending"
                  THEN /\ wop' = [wop EXCEPT
                                     ![i].st = r.st,
                                     ![i].mid = @ \/ Len(r.tw.out) > wop[i].start,
                                     ![i].starved = @ \/ r.tw.out = wout]
                       /\ UNCHANGED wres
                  ELSE /\ wop' = [wop EXCEPT ![i] = NoOp]
                       /\ wres' = [valid |-> TRUE, how |-> "done", id |-> i,
                                   ty |-> wop[i].ty, val |-> wop[i].val,
                                   start |-> wop[i].start, end |-> Len(r.tw.out),
                                   out |-> r.out,
                                   mid |-> wop[i].mid, starved |-> wop[i].starved,
                                   after |-> wop[i].after]
               /\ (r.out.tag # "Pending" => j = 0)
               /\ LET passed(bw) ==
                          /\ bw.ok
                          /\ wbuf' = bw.buf
                          /\ rwire' = bw.inner
                  IN  passed(BufWriter_calls([buf |-> wbuf, inner |-> rwire,
                                              ok |-> TRUE], r.tw.log, j))
       IN  polled(ser_poll_stage(wop[i].ty, wop[i].st, WriteTransport(lim)))
    /\ UNCHANGED <<lvars, endian, fvars, avars, bvars, peeked, nops, rdel,
                   rpos, rclosed, rfail, rop, rres, rown, wcalls, wflush>>

(* a poll_flush that flushes the transport and not the BufWriter *)
IpcStream_poll_flush_past(j) ==
    /\ exclusive_borrow(WLive)
    /\ wcalls # <<>>
    /\ wflush # "Ok"
    /\ j = 0
    /\ wflush' = "Ok"
    /\ UNCHANGED <<lvars, endian, fvars, avars, bvars, peeked, nops, rvars,
                   wvars, wcalls, wbuf>>

(* <IpcStream as AsyncWrite>::poll_flush: BufWriter::poll_flush, whose *)
(* flush_buf passes on j of the bytes held; Ready when all are passed  *)
(* on and the transport is flushed                                     *)
IpcStream_poll_flush(j) ==
    /\ exclusive_borrow(WLive)
    /\ wcalls # <<>>
    /\ wflush # "Ok"
    /\ j <= Len(wbuf)
    /\ rwire' = rwire \o SubSeq(wbuf, 1, j)
    /\ wbuf' = SubSeq(wbuf, j + 1, Len(wbuf))
    /\ wflush' = IF j = Len(wbuf) THEN "Ok" ELSE "Pending"
    /\ UNCHANGED <<lvars, endian, fvars, avars, bvars, peeked, nops, rdel,
                   rpos, rclosed, rfail, rop, rres, rown, wvars, wcalls>>

(* typed writes and flushes on the buffered write half: one of the *)
(* first TailWrites, then any value the wrapper can write           *)
InitBuffered == InitFault /\ rwire = <<>>

NextBuffered ==
    \/ \E w \in 1..Len(TestWrites) :
           (nops = 0 => w <= TailWrites) /\ IpcStream_write_buffered(w)
    \/ \E i \in 1..MaxOps, lim \in LiveLims, j \in 0..BufCap :
           PollBuffered(i, lim, j)
    \/ \E n \in {1, MaxRoom - wroom} :
           WLive # {} /\ n > 0 /\ Grant(n) /\ UNCHANGED rvars
    \/ \E j \in 0..BufCap : IpcStream_poll_flush(j)

SpecBuffered == InitBuffered /\ [][NextBuffered]_vars

----------------------------------------------------------------------------
(* Peek and consume: AsyncBufRead for IpcStream *)

(* what a peek returned: made after nops operations with the read half *)
(* at offset at, it showed bytes, of which used were consumed since    *)
Peek(at, out, bytes) ==
    [valid |-> TRUE, at |-> at, nops |-> nops, out |-> out, bytes |-> bytes,
     used |-> 0]

(* a peek that takes the bytes it shows *)
IpcStream_poll_fill_buf_taking(lim) ==
    /\ exclusive_borrow(RLive \cup WLive)
    /\ LET ready(r) ==
               /\ r.res = "Ready"
               /\ peeked' = Peek(rpos, "Ok", r.bytes)
               /\ rpos' = rpos + Len(r.bytes)
               /\ rown' = rown \o Owned(0, Len(r.bytes))
       IN  ready(poll_read(ReadTransport(lim), lim))
    /\ UNCHANGED <<rwire, rdel, rclosed, rfail, rop, rres>>
    /\ UNCHANGED <<lvars, qvars, endian, wvars, nops, fvars, avars, bvars>>

(* IpcStream::poll_fill_buf: the bytes the read half holds, after a read *)
(* of the transport if it holds none; no byte is taken                   *)
IpcStream_poll_fill_buf(lim) ==
    /\ exclusive_borrow(RLive \cup WLive)
    /\ LET ready(r) ==
               /\ r.res # "Pending"
               /\ peeked' = Peek(rpos, IF r.res = "Err" THEN r.err ELSE "Ok",
                                 r.bytes)
               /\ rfail' = r.tr.err
       IN  ready(poll_read(ReadTransport(lim), lim))
    /\ UNCHANGED <<rwire, rdel, rpos, rclosed, rop, rres, rown>>
    /\ UNCHANGED <<lvars, qvars, endian, wvars, nops, fvars, avars, bvars>>

(* IpcStream::consume(amt): the read half moves on by amt, at most to the *)
(* end of the bytes the last peek showed                                  *)
IpcStream_consume(amt) ==
    /\ exclusive_borrow(RLive \cup WLive)
    /\ peeked.valid
    /\ rpos = peeked.at + peeked.used
    /\ LET n == Min(amt, Len(peeked.bytes) - peeked.used) IN
           /\ rpos' = rpos + n
           /\ rown' = rown \o Owned(0, n)
           /\ peeked' = [peeked EXCEPT !.used = @ + n]
    /\ UNCHANGED <<rwire, rdel, rclosed, rfail, rop, rres>>
    /\ UNCHANGED <<lvars, qvars, endian, wvars, nops, fvars, avars, bvars>>

(* a wrapper that is peeked, consumed from, read from and written to *)
NextPeek ==
    \/ \E lim \in 1..MaxShort : IpcStream_poll_fill_buf(lim)
    \/ \E amt \in 1..MaxShort :
           /\ peeked.valid
           /\ amt <= Len(peeked.bytes) - peeked.used
           /\ IpcStream_consume(amt)
    \/ \E ty \in {U8, IntTy(2), BytesTy} :
           (ty = BytesTy => rpos = 0) /\ IpcStream_read(ty)
    \/ wout = <<>> /\ IpcStream_write(TestWrites[1].ty, TestWrites[1].val)
    \/ \E i \in 1..MaxOps, lim \in {1, 4 * WordSize} :
           PollRead(i, lim) /\ UNCHANGED wvars
    \/ \E i \in 1..MaxOps : PollWrite(i, MaxRoom) /\ UNCHANGED rvars
    \/ \E n \in {MaxShort, Len(rwire) - rdel} \ {0} :
           rdel = rpos /\ Deliver(n) /\ UNCHANGED wvars
    \/ WLive # {} /\ wroom = 0 /\ Grant(MaxRoom) /\ UNCHANGED rvars

SpecPeek == Init /\ [][NextPeek]_vars

(* a process makes its wrapper with one of the factories and, once it has *)
(* one with both handles, uses it                                         *)
InitFactory ==
    /\ endian = "little"
    /\ rwire \in DuplexWires
    /\ rdel = 0
    /\ rpos = 0
    /\ rclosed = FALSE
    /\ rfail = "none"
    /\ rop = NoOps
    /\ rres = NoRes
    /\ rown = <<>>
    /\ nops = 0
    /\ task = NoTask
    /\ Unbuffered
    /\ WriteIdle
    /\ std \in Handles
    /\ child \in Handles
    /\ stream = Unmade
    /\ NoAdapter
    /\ NoBlocking

Usable == stream.some /\ stream.had_r /\ stream.had_w

NextFactory ==
    \/ parent_stream
    \/ connect_to_child
    \/ \E ty \in WrapperTypes :
           Usable /\ PlannedRead(ty) /\ IpcStream_read(ty)
    \/ \E i \in 1..Len(TestWrites) :
           /\ Usable /\ DuplexWrite(i)
           /\ IpcStream_write(TestWrites[i].ty, TestWrites[i].val)
    \/ \E i \in 1..MaxOps : PollRead(i, MaxRoom) /\ UNCHANGED wvars
    \/ \E i \in 1..MaxOps : PollWrite(i, MaxRoom) /\ UNCHANGED rvars
    \/ RLive # {} /\ rdel = rpos /\ Deliver(Len(rwire) - rdel)
                  /\ UNCHANGED wvars
    \/ WLive # {} /\ wroom = 0 /\ Grant(MaxRoom) /\ UNCHANGED rvars

SpecFactory == InitFactory /\ [][NextFactory]_vars

----------------------------------------------------------------------------
(* The thread-bridged adapters: AsyncIpcReceiver and AsyncIpcSender *)

(* requests issued on one adapter, messages in the inter-process channel *)
MaxReq == 3
MaxInbox == 2

(* ReceiverMessage / SenderMessage: a request carrying the sending end of *)
(* the one-shot signal of request id, or Shutdown                         *)
Request(id) == [m |-> "Request", id |-> id]
Shutdown == [m |-> "Shutdown", id |-> 0]

(* crossbeam::channel::bounded(1) for the receiver, bounded(2) for the *)
(* sender                                                              *)
Capacity(d) == IF d = "recv" THEN 1 ELSE 2

(* Sender::try_send on the mailbox *)
try_send(box, cap, receiving) ==
    IF ~receiving THEN "Disconnected"
    ELSE IF Len(box) >= cap THEN "Full"
    ELSE "Ok"

(* the worker is inside the body of its while-let loop *)
Servicing == worker.pc \in {"check", "try", "send"}

(* the requests queued in the mailbox or being serviced by the worker *)
Outstanding ==
    Cardinality({k \in 1..Len(mailbox) : mailbox[k].m = "Request"})
        + (IF Servicing THEN 1 ELSE 0)

(* recv(&mut self) / send(&mut self, data): a fresh one-shot signal, its *)
(* sending end put in the mailbox with try_send, Full or Disconnected    *)
(* a panic; the future returned borrows the adapter                      *)
issue(d) ==
    /\ dir = d /\ handle /\ misuse = "none"
    /\ fut = 0
    /\ Len(sig) < MaxReq
    /\ LET res == try_send(mailbox, Capacity(d), worker.pc # "exited") IN
       IF res = "Ok"
       THEN /\ sig' = Append(sig, "open")
            /\ mailbox' = Append(mailbox, Request(Len(sig) + 1))
            /\ fut' = Len(sig) + 1
            /\ UNCHANGED misuse
       ELSE /\ sig' = Append(sig, "gone")
            /\ misuse' = res
            /\ UNCHANGED <<mailbox, fut>>
    /\ UNCHANGED <<worker, channel, handle, dir>>
    /\ UNCHANGED <<lvars, qvars, endian, rvars, wvars, nops, fvars, bvars, peeked>>

AsyncIpcReceiver_recv == issue("recv")

AsyncIpcSender_send == issue("send")

(* the sending end of a one-shot signal sends a value: it reaches a *)
(* receiving end that is still there and is lost otherwise          *)
oneshot_send(state) == IF state = "open" THEN "sent" ELSE "lost"

(* a worker whose receiver.recv() keeps blocking on a disconnected *)
(* mailbox                                                         *)
WorkerTake_sentinel_only ==
    /\ worker.pc = "waiting"
    /\ mailbox # <<>>
    /\ mailbox' = Tail(mailbox)
    /\ worker' = IF Head(mailbox).m = "Request"
                  THEN [pc |-> IF dir = "recv" THEN "check" ELSE "send",
                        req |-> Head(mailbox).id]
                  ELSE [pc |-> "exited", req |-> 0]
    /\ UNCHANGED <<fut, sig, channel, misuse, handle, dir>>
    /\ UNCHANGED <<lvars, qvars, endian, rvars, wvars, nops, fvars, bvars, peeked>>

(* the worker's receiver.recv() returns: a request starts the loop body, *)
(* Shutdown or a disconnected empty mailbox ends the thread              *)
WorkerTake ==
    /\ worker.pc = "waiting"
    /\ \/ /\ mailbox # <<>>
          /\ mailbox' = Tail(mailbox)
          /\ worker' = IF Head(mailbox).m = "Request"
                        THEN [pc |-> IF dir = "recv" THEN "check" ELSE "send",
                              req |-> Head(mailbox).id]
                        ELSE [pc |-> "exited", req |-> 0]
       \/ /\ mailbox = <<>> /\ ~handle
          /\ worker' = [pc |-> "exited", req |-> 0]
          /\ UNCHANGED mailbox
    /\ UNCHANGED <<fut, sig, channel, misuse, handle, dir>>
    /\ UNCHANGED <<lvars, qvars, endian, rvars, wvars, nops, fvars, bvars, peeked>>

(* the receiver's worker evaluates !send.is_closed() *)
WorkerCheck ==
    /\ worker.pc = "check"
    /\ worker' = IF sig[worker.req] = "closed"
                  THEN [pc |-> "waiting", req |-> 0]
                  ELSE [worker EXCEPT !.pc = "try"]
    /\ UNCHANGED <<mailbox, fut, sig, channel, misuse, handle, dir>>
    /\ UNCHANGED <<lvars, qvars, endian, rvars, wvars, nops, fvars, bvars, peeked>>

(* the receiver's worker calls channel.try_recv(): a message or an error *)
(* is sent on the signal and ends the request, Empty goes round again    *)
WorkerTryRecv ==
    /\ worker.pc = "try"
    /\ IF channel.n > 0
       THEN /\ channel' = [channel EXCEPT !.n = @ - 1,
                                          !.moved = Append(@, worker.req)]
            /\ sig' = [sig EXCEPT ![worker.req] = oneshot_send(@)]
            /\ worker' = [pc |-> "waiting", req |-> 0]
       ELSE IF channel.closed
       THEN /\ sig' = [sig EXCEPT ![worker.req] = oneshot_send(@)]
            /\ worker' = [pc |-> "waiting", req |-> 0]
            /\ UNCHANGED channel
       ELSE /\ worker' = [worker EXCEPT !.pc = "check"]
            /\ UNCHANGED <<sig, channel>>
    /\ UNCHANGED <<mailbox, fut, misuse, handle, dir>>
    /\ UNCHANGED <<lvars, qvars, endian, rvars, wvars, nops, fvars, bvars, peeked>>

(* a sender's worker that, like the receiver's, does nothing for a *)
(* request whose future is gone                                    *)
WorkerSend_if_awaited ==
    /\ worker.pc = "send"
    /\ channel' = IF channel.closed \/ sig[worker.req] = "closed" THEN channel
                   ELSE [channel EXCEPT !.n = @ + 1,
                                        !.moved = Append(@, worker.req)]
    /\ sig' = [sig EXCEPT ![worker.req] = oneshot_send(@)]
    /\ worker' = [pc |-> "waiting", req |-> 0]
    /\ UNCHANGED <<mailbox, fut, misuse, handle, dir>>
    /\ UNCHANGED <<lvars, qvars, endian, rvars, wvars, nops, fvars, bvars, peeked>>

(* a sender's worker that lets go of the signal, sending nothing on it, *)
(* when channel.send failed                                            *)
WorkerSend_silent ==
    /\ worker.pc = "send"
    /\ channel' = IF channel.closed THEN channel
                   ELSE [channel EXCEPT !.n = @ + 1,
                                        !.moved = Append(@, worker.req)]
    /\ sig' = [sig EXCEPT ![worker.req] =
                   IF channel.closed THEN "gone" ELSE oneshot_send(@)]
    /\ worker' = [pc |-> "waiting", req |-> 0]
    /\ UNCHANGED <<mailbox, fut, misuse, handle, dir>>
    /\ UNCHANGED <<lvars, qvars, endian, rvars, wvars, nops, fvars, bvars, peeked>>

(* the sender's worker: result_send.send(channel.send(data)) *)
WorkerSend ==
    /\ worker.pc = "send"
    /\ channel' = IF channel.closed THEN channel
                   ELSE [channel EXCEPT !.n = @ + 1,
                                        !.moved = Append(@, worker.req)]
    /\ sig' = [sig EXCEPT ![worker.req] = oneshot_send(@)]
    /\ worker' = [pc |-> "waiting", req |-> 0]
    /\ UNCHANGED <<mailbox, fut, misuse, handle, dir>>
    /\ UNCHANGED <<lvars, qvars, endian, rvars, wvars, nops, fvars, bvars, peeked>>

(* the future is polled and its signal has fired: Ready with the value *)
(* sent, a panic if the sending end went away without one              *)
FuturePoll ==
    /\ fut # 0
    /\ sig[fut] \in {"sent", "gone"}
    /\ IF sig[fut] = "sent"
       THEN sig' = [sig EXCEPT ![fut] = "done"] /\ UNCHANGED misuse
       ELSE misuse' = "Died" /\ UNCHANGED sig
    /\ fut' = 0
    /\ UNCHANGED <<mailbox, worker, channel, handle, dir>>
    /\ UNCHANGED <<lvars, qvars, endian, rvars, wvars, nops, fvars, bvars, peeked>>

(* the future is dropped before it has completed: the borrow ends and *)
(* the receiving end of its signal closes                             *)
FutureDrop ==
    /\ fut # 0
    /\ sig' = [sig EXCEPT ![fut] = IF @ = "open" THEN "closed"
                                    ELSE IF @ = "sent" THEN "lost" ELSE @]
    /\ fut' = 0
    /\ UNCHANGED <<mailbox, worker, channel, misuse, handle, dir>>
    /\ UNCHANGED <<lvars, qvars, endian, rvars, wvars, nops, fvars, bvars, peeked>>

(* Drop for the adapter: let _ = try_send(Shutdown), and the mailbox's *)
(* sending end goes away                                               *)
AdapterDrop ==
    /\ handle
    /\ fut = 0
    /\ handle' = FALSE
    /\ mailbox' = IF try_send(mailbox, Capacity(dir), worker.pc # "exited") = "Ok"
                   THEN Append(mailbox, Shutdown)
                   ELSE mailbox
    /\ UNCHANGED <<worker, fut, sig, channel, misuse, dir>>
    /\ UNCHANGED <<lvars, qvars, endian, rvars, wvars, nops, fvars, bvars, peeked>>

(* the peer sends a message to the receiver's channel *)
PeerSend ==
    /\ dir = "recv"
    /\ ~channel.closed
    /\ channel.n < MaxInbox
    /\ channel' = [channel EXCEPT !.n = @ + 1]
    /\ UNCHANGED <<dir, mailbox, worker, fut, sig, misuse, handle>>
    /\ UNCHANGED <<lvars, qvars, endian, rvars, wvars, nops, fvars, bvars, peeked>>

(* the peer takes a message the sender's worker has sent *)
PeerRecv ==
    /\ dir = "send"
    /\ channel.n > 0
    /\ channel' = [channel EXCEPT !.n = @ - 1]
    /\ UNCHANGED <<dir, mailbox, worker, fut, sig, misuse, handle>>
    /\ UNCHANGED <<lvars, qvars, endian, rvars, wvars, nops, fvars, bvars, peeked>>

(* the peer's end of the channel goes away *)
PeerClose ==
    /\ ~channel.closed
    /\ channel' = [channel EXCEPT !.closed = TRUE]
    /\ UNCHANGED <<dir, mailbox, worker, fut, sig, misuse, handle>>
    /\ UNCHANGED <<lvars, qvars, endian, rvars, wvars, nops, fvars, bvars, peeked>>

(* AsyncIpcReceiver::new / AsyncIpcSender::new: an empty mailbox and a *)
(* worker blocked on it; no stream wrapper is involved                 *)
InitChannel ==
    /\ endian = "little"
    /\ nops = 0
    /\ task = NoTask
    /\ Unbuffered
    /\ ReadIdle
    /\ WriteIdle
    /\ std = [stdin |-> TRUE, stdout |-> TRUE]
    /\ child = [stdout |-> FALSE, stdin |-> FALSE]
    /\ stream = Unmade
    /\ dir \in {"recv", "send"}
    /\ mailbox = <<>>
    /\ worker = [pc |-> "waiting", req |-> 0]
    /\ fut = 0
    /\ sig = <<>>
    /\ channel = [n |-> 0, closed |-> FALSE, moved |-> <<>>]
    /\ misuse = "none"
    /\ handle = TRUE
    /\ NoBlocking

NextChannel ==
    \/ AsyncIpcReceiver_recv
    \/ AsyncIpcSender_send
    \/ WorkerTake
    \/ WorkerCheck
    \/ WorkerTryRecv
    \/ WorkerSend
    \/ FuturePoll
    \/ FutureDrop
    \/ AdapterDrop
    \/ PeerSend
    \/ PeerRecv
    \/ PeerClose

SpecChannel == InitChannel /\ [][NextChannel]_vars

(* the worker is a thread of its own (thread::spawn): whatever step it *)
(* can take it takes in the end                                        *)
WorkerFair ==
    /\ WF_vars(WorkerTake)
    /\ WF_vars(WorkerCheck)
    /\ WF_vars(WorkerTryRecv)
    /\ WF_vars(WorkerSend)

SpecChannelFair == InitChannel /\ [][NextChannel]_vars /\ WorkerFair

----------------------------------------------------------------------------
(* The blocking wrapper (src/src/blocking.rs) beside the async one *)

(* the types both wrappers have a native-order read and write method for *)
BlockingTypes ==
    {U8, I8, IntTy(2), IntTy(4), IntTy(WordSize), FloatTy(4), FloatTy(8),
     BytesTy, StrTy}

(* Read::read_exact(&mut buff), buff of n bytes, on an input stream that *)
(* holds wire and ends there                                             *)
read_exact(wire, pos, n) ==
    IF Len(wire) - pos >= n
    THEN [out |-> Ok(SubSeq(wire, pos + 1, pos + n)), pos |-> pos + n]
    ELSE [out |-> Err("UnexpectedEof"), pos |-> Len(wire)]

(* stream.take(len).read_to_end(&mut buf): the next len bytes, or what *)
(* there is before the end of the stream                               *)
take_read_to_end(wire, pos, len) ==
    [buf |-> SubSeq(wire, pos + 1, Min(pos + len, Len(wire))),
     pos |-> Min(pos + len, Len(wire))]

(* read_stream!: read_usize()?, then read_to_end / read_to_string on    *)
(* take(len) with `?` (read_to_string fails with InvalidData when what  *)
(* it read is not UTF-8), then the check buf.len() != len               *)
read_stream(wire, pos, is_string) ==
    LET check(d, len) ==
            IF is_string /\ ~from_utf8(d.buf)
            THEN [out |-> Err("InvalidData"), pos |-> d.pos]
            ELSE IF Len(d.buf) # len
            THEN [out |-> Err("UnexpectedEof"), pos |-> d.pos]
            ELSE [out |-> Ok(d.buf), pos |-> d.pos]
        match(l) ==
            IF l.out.tag = "Err" THEN l
            ELSE check(take_read_to_end(wire, l.pos,
                                        as_usize(from_ne_bytes(l.out.val))),
                       as_usize(from_ne_bytes(l.out.val)))
    IN  match(read_exact(wire, pos, WordSize))

(* read_<int>: read_exact into [0; size_of], then from_ne_bytes; *)
(* read_<float>: from_bits of the same                           *)
read_int(wire, pos, ty) ==
    LET match(r) ==
            IF r.out.tag = "Err" THEN r
            ELSE [r EXCEPT !.out =
                     CASE ty.k = "byte" ->
                              Ok(<<as_byte_ty(from_ne_bytes(r.out.val)[1],
                                              ty.signed)>>)
                       [] ty.k = "int" -> Ok(from_ne_bytes(r.out.val))
                       [] ty.k = "float" ->
                              Ok(from_bits(from_ne_bytes(r.out.val)))]
    IN  match(read_exact(wire, pos, IF ty.k = "byte" THEN 1 ELSE ty.w))

(* the blocking wrapper's read of a value of type ty *)
blocking_read(ty, wire, pos) ==
    CASE ty.k = "bytes" -> read_stream(wire, pos, FALSE)
      [] ty.k = "str" -> read_stream(wire, pos, TRUE)
      [] OTHER -> read_int(wire, pos, ty)

(* write_<int>: write_all(&val.to_ne_bytes()); write_<float>: the same *)
(* of val.to_bits(); write_buf: write_all of len.to_ne_bytes() and then *)
(* of the buffer; write_str: write_buf(buf.as_bytes())                  *)
blocking_write(ty, val) ==
    CASE ty.k = "byte" -> to_ne_bytes(<<as_u8(val[1])>>)
      [] ty.k = "int" -> to_ne_bytes(val)
      [] ty.k = "float" -> to_ne_bytes(to_bits(val))
      [] OTHER -> to_ne_bytes(usize_of(Len(val))) \o val

(* blocking::IpcStream::read_<type>, read_buff, read_string on the input *)
(* stream wire: the call returns when it has its bytes or the stream has *)
(* ended                                                                 *)
IpcStream_blocking_read(ty, wire) ==
    /\ ty \in BlockingTypes
    /\ brres = NoRes
    /\ LET returned(r) ==
               /\ brres' = [valid |-> TRUE, ty |-> ty, start |-> bpos,
                            end |-> r.pos, out |-> r.out, wire |-> wire]
               /\ bpos' = r.pos
       IN  returned(blocking_read(ty, wire, bpos))
    /\ UNCHANGED <<bout, bwres>>
    /\ UNCHANGED <<lvars, qvars, endian, rvars, wvars, nops, fvars, avars, peeked>>

(* blocking::IpcStream::write_<type>, write_buf, write_str *)
IpcStream_blocking_write(ty, val) ==
    /\ ty \in BlockingTypes
    /\ bwres = NoRes
    /\ bout' = bout \o blocking_write(ty, val)
    /\ bwres' = [valid |-> TRUE, ty |-> ty, val |-> val, out |-> Ok(<<>>)]
    /\ UNCHANGED <<bpos, brres>>
    /\ UNCHANGED <<lvars, qvars, endian, wvars, nops, fvars, avars, peeked>>

(* the streams a peer sends to both wrappers: the test streams whole, *)
(* cut one byte short of the end of their first value, and cut after  *)
(* three bytes                                                        *)
Cuts(w) == {k \in {Len(w), Len(w) - Len(TestTail) - 1, 3} : k >= 1}

MirrorWires ==
    UNION {{SubSeq(c.wire, 1, k) : k \in Cuts(c.wire)} :
              c \in {d \in TestCases : d.tys \cap BlockingTypes # {}}}

(* the reads issued on a stream a peer sends: of a type listed with the *)
(* test stream it is, or is cut from                                    *)
MirrorPlanned(ty) ==
    /\ ty \in BlockingTypes
    /\ \E c \in TestCases :
           /\ ty \in c.tys
           /\ \E k \in Cuts(c.wire) : rwire = SubSeq(c.wire, 1, k)

(* the two wrappers read the same stream sent by a peer (SameStream), or *)
(* each writes a value and reads what the other has written              *)
SameStream == bout = <<>> /\ rwire # <<>>

InitMirror ==
    /\ endian \in {"little", "big"}
    /\ rwire \in MirrorWires \cup {<<>>}
    /\ rdel = 0
    /\ rpos = 0
    /\ rclosed = FALSE
    /\ rfail = "none"
    /\ rop = NoOps
    /\ rres = NoRes
    /\ rown = <<>>
    /\ nops = 0
    /\ task = NoTask
    /\ Unbuffered
    /\ WriteIdle
    /\ Attached
    /\ NoAdapter
    /\ NoBlocking

(* the value the other wrapper has written or is writing, if any: both *)
(* wrappers write the same value in a run                              *)
MirrorValue(i) ==
    /\ TestWrites[i].ty \in BlockingTypes
    /\ bwres.valid =>
           (bwres.ty = TestWrites[i].ty /\ bwres.val = TestWrites[i].val)
    /\ \A k \in WLive :
           wop[k].ty = TestWrites[i].ty /\ wop[k].val = TestWrites[i].val
    /\ wres.valid =>
           (wres.ty = TestWrites[i].ty /\ wres.val = TestWrites[i].val)

NextMirror ==
    \/ \E ty \in BlockingTypes :
           /\ SameStream /\ nops = 0 /\ MirrorPlanned(ty)
           /\ read_from(ty) /\ UNCHANGED wvars
    \/ \E ty \in BlockingTypes :
           /\ SameStream /\ MirrorPlanned(ty)
           /\ IpcStream_blocking_read(ty, rwire)
    \/ SameStream /\ rdel = Len(rwire) /\ CloseRead /\ UNCHANGED wvars
    \/ \E i \in 1..MaxOps, lim \in {1, 4 * WordSize} :
           PollRead(i, lim) /\ UNCHANGED wvars
    \/ \E n \in {1, Len(rwire) - rdel} \ {0} :
           RLive # {} /\ Deliver(n) /\ UNCHANGED wvars
    \/ \E i \in 1..Len(TestWrites) :
           /\ rwire = bout /\ nops = 0
           /\ MirrorValue(i)
           /\ exclusive_borrow(RLive \cup WLive)
           /\ write_to(TestWrites[i].ty, TestWrites[i].val)
           /\ UNCHANGED rvars
    \/ \E i \in 1..Len(TestWrites) :
           /\ rwire = bout
           /\ MirrorValue(i)
           /\ IpcStream_blocking_write(TestWrites[i].ty, TestWrites[i].val)
           /\ rwire' = bout'
           /\ UNCHANGED <<rdel, rpos, rclosed, rfail, rop, rres, rown>>
    \/ \E i \in 1..MaxOps, lim \in {1, 4 * WordSize} :
           PollWrite(i, lim) /\ UNCHANGED rvars
    \/ \E n \in {1, MaxRoom} :
           WLive # {} /\ wroom = 0 /\ Grant(n) /\ UNCHANGED rvars
    \/ \E ty \in BlockingTypes :
           /\ bwres.valid /\ bwres.ty = ty /\ rres = NoRes
           /\ exclusive_borrow(RLive \cup WLive)
           /\ read_from(ty) /\ UNCHANGED wvars
    \/ \E ty \in BlockingTypes :
           /\ PeerType(ty) /\ wres.out.tag = "Ok"
           /\ IpcStream_blocking_read(ty, wout)

SpecMirror == InitMirror /\ [][NextMirror]_vars

----------------------------------------------------------------------------
(* Reference runs *)

(* two poll results are the same result *)
SameOut(a, b) ==
    /\ a.tag = b.tag
    /\ a.tag = "Ok" => a.val = b.val
    /\ a.tag = "Err" => a.err = b.err

(* number of bytes the peer's stream holds in the end, as far as known *)
StreamEnd == IF rclosed THEN rdel ELSE Len(rwire)

(* a read of type ty issued at offset start and polled once with every *)
(* byte of the stream already received and the stream closed           *)
AllAtOnce(ty, start) ==
    de_poll_stage(ty, de_new(ty),
                  [wire |-> rwire, pos |-> start, avail |-> StreamEnd - start,
                   eof |-> TRUE, err |-> "none", lim |-> 4 * WordSize,
                   calls |-> 0, log |-> <<>>])

(* a write of val as type ty polled once with room for every byte: the *)
(* transport after it                                                  *)
WrittenAtOnce(ty, val) ==
    ser_poll_stage(ty, ser_new(ty, val),
                   [out |-> <<>>, room |-> 4 * WordSize, fail |-> "none",
                    lim |-> 4 * WordSize, calls |-> 0, log |-> <<>>]).tw.out

IsScalar(ty) == ty.k \in {"byte", "int", "float"}

ReadDone == rres.valid /\ rres.how = "done"
WriteDone == wres.valid /\ wres.how = "done"

(* the bytes the last write put on the wire *)
Written == SubSeq(wout, wres.start + 1, wres.end)

----------------------------------------------------------------------------
(* C1: resumability.  A decode that has completed, however its bytes were  *)
(* split into deliveries and however many polls found nothing to read,     *)
(* returned what the same decode returns when polled once with all bytes   *)
(* received, and took from the transport exactly the bytes that run takes  *)
(* (each byte of the value once, none beyond it).                          *)
C1_Resumable ==
    (rres.valid /\ rres.how = "done") =>
        LET one == AllAtOnce(rres.ty, rres.start)
        IN  /\ SameOut(rres.out, one.out)
            /\ rres.end = one.tr.pos

(* an 8-byte integer completed after its bytes came in several polls, one *)
(* of which found nothing to read                                         *)
C1_Witness ==
    /\ rres.valid /\ rres.how = "done"
    /\ rres.ty = IntTy(WordSize)
    /\ rres.out.tag = "Ok"
    /\ rres.mid /\ rres.starved
    /\ rres.end = rres.start + WordSize

----------------------------------------------------------------------------
(* C2: scalar round trip.  The typed read of the bytes a completed typed   *)
(* write of a scalar v put on the wire returns v, bit for bit, for the     *)
(* 1-byte, multi-byte and float types; and the bytes a float write put on  *)
(* the wire are the bytes the equal-width integer write puts for its bit   *)
(* pattern.                                                                *)
C2_ScalarRoundTrip ==
    /\ (ReadDone /\ WriteDone /\ IsScalar(wres.ty) /\ rres.start = wres.start)
           => (rres.out.tag = "Ok" /\ rres.out.val = wres.val)
    /\ (WriteDone /\ wres.ty.k = "float")
           => Written = WrittenAtOnce(IntTy(wres.ty.w), to_bits(wres.val))

(* the float with the bit pattern FFC00001 (a negative NaN with a payload) *)
(* was written in parts and read back in parts                             *)
C2_Witness ==
    /\ ReadDone /\ WriteDone
    /\ wres.ty = FloatTy(4)
    /\ wres.val = [bits |-> <<255, 192, 0, 1>>]
    /\ wres.mid /\ rres.mid
    /\ rres.out.tag = "Ok"

(* the length a prefix at offset start of the read stream declares *)
DeclaredLen(start) ==
    as_usize(from_ne_bytes(SubSeq(rwire, start + 1, start + WordSize)))

----------------------------------------------------------------------------
(* C3: length framing.  A completed write of a byte buffer of length L put *)
(* exactly WordSize + L bytes on the wire: the native-order prefix with    *)
(* value L, then the L bytes in order.  A completed read of a byte buffer  *)
(* whose prefix declares L took exactly WordSize + L bytes, the last L of  *)
(* them being the value it returned.                                       *)
C3_LengthFraming ==
    /\ (WriteDone /\ wres.ty = BytesTy /\ wres.out.tag = "Ok")
           => /\ wres.end - wres.start = WordSize + Len(wres.val)
              /\ as_usize(from_ne_bytes(SubSeq(Written, 1, WordSize)))
                     = Len(wres.val)
              /\ From(Written, WordSize + 1) = wres.val
    /\ (ReadDone /\ rres.ty = BytesTy /\ rres.out.tag = "Ok")
           => /\ rres.end - rres.start = WordSize + DeclaredLen(rres.start)
              /\ rres.out.val
                     = SubSeq(rwire, rres.start + WordSize + 1, rres.end)

(* a 3-byte buffer was written in parts and then read in parts *)
C3_Witness ==
    /\ ReadDone /\ WriteDone
    /\ wres.ty = BytesTy /\ rres.ty = BytesTy
    /\ Len(wres.val) = MaxLen
    /\ wres.mid /\ rres.mid
    /\ rres.out.tag = "Ok"
    /\ rres.end = WordSize + MaxLen

----------------------------------------------------------------------------
(* Ownership of the bytes on a half *)

(* the positions of own that operation i moved *)
BytesOf(own, i) == {k \in 1..Len(own) : own[k] = i}

(* the bytes of every operation form one run *)
Contiguous(own) ==
    \A a, c \in 1..Len(own) :
        (a < c /\ own[a] = own[c]) => \A b \in a..c : own[b] = own[a]

(* C4: no interleaving on the wire.  On each half the bytes every          *)
(* operation moved form one contiguous run; the run of a completed write   *)
(* is the whole encoding of its value (prefix, then payload) and the run   *)
(* of a completed read is the frame it decoded, with no byte of another    *)
(* operation in between.                                                   *)
C4_NoInterleaving ==
    /\ Contiguous(wown) /\ Len(wown) = Len(wout)
    /\ Contiguous(rown) /\ Len(rown) = rpos
    /\ (WriteDone /\ wres.out.tag = "Ok")
           => /\ BytesOf(wown, wres.id) = (wres.start + 1)..wres.end
              /\ Written = WrittenAtOnce(wres.ty, wres.val)
    /\ (ReadDone /\ rres.out.tag = "Ok")
           => /\ BytesOf(rown, rres.id) = (rres.start + 1)..rres.end
              /\ SameOut(rres.out, AllAtOnce(rres.ty, rres.start).out)

(* a second write completed in several polls behind the bytes of a first *)
(* write on the same half                                                *)
C4_Witness ==
    /\ WriteDone /\ wres.out.tag = "Ok"
    /\ wres.id = 2 /\ wres.mid
    /\ BytesOf(wown, 1) # {}
    /\ BytesOf(wown, 2) # {}

----------------------------------------------------------------------------
(* C5: at most one live operation per half.  In every reachable state the  *)
(* read half has at most one operation that has not completed or been      *)
(* dropped, and so has the write half.                                     *)
C5_OneLivePerHalf ==
    /\ Cardinality(RLive) <= 1
    /\ Cardinality(WLive) <= 1

(* a read is alive, part of its value taken, and the run may still issue *)
(* another operation                                                     *)
C5_Witness ==
    /\ nops < MaxOps
    /\ \E i \in RLive : rop[i].mid /\ rpos > rop[i].start

----------------------------------------------------------------------------
(* C6 as stated: while a write issued through the wrapper is in progress *)
(* a read can be issued through the same wrapper (and is then in         *)
(* progress at the same time).                                           *)
C6_Original ==
    (WLive # {} /\ RLive = {} /\ nops < MaxOps /\ rpos = 0)
        => ENABLED IpcStream_read(BytesTy)

(* C6: the halves are independent in state, not in time.  A read and a    *)
(* write issued through the same wrapper are never alive together (each   *)
(* typed method borrows the whole wrapper); no operation moves bytes on   *)
(* both halves; and what an operation left on one half, complete or not,  *)
(* stays as it was while an operation on the other half runs.             *)
C6_HalvesDisjoint ==
    /\ RLive = {} \/ WLive = {}
    /\ \A a \in 1..Len(rown), b \in 1..Len(wown) : rown[a] # wown[b]
    /\ (RLive # {} /\ wres.valid) => wres.end = Len(wout)
    /\ (WLive # {} /\ rres.valid) => rres.end = rpos

(* a read completed although the write issued before it never did: the *)
(* write was dropped with part of its value on the wire                *)
C6_Witness ==
    /\ ReadDone /\ rres.out.tag = "Ok" /\ rres.mid
    /\ wres.valid /\ wres.how = "dropped"
    /\ wres.end > wres.start

----------------------------------------------------------------------------
(* C7: cancellation is not an undo.  After an operation was dropped with k *)
(* bytes of its value transferred, exactly those k bytes are on the half:  *)
(* the write half still holds the first k bytes of the value's encoding,   *)
(* the read half has consumed the k bytes that followed the operation's    *)
(* start; and every later operation on the half starts at the byte that    *)
(* follows.                                                                *)
C7_CancelIsNotUndo ==
    /\ (wres.valid /\ wres.how = "dropped")
           => /\ BytesOf(wown, wres.id) = (wres.start + 1)..wres.end
              /\ wres.end <= Len(wout)
              /\ Written = SubSeq(WrittenAtOnce(wres.ty, wres.val),
                                  1, wres.end - wres.start)
              /\ \A i \in WLive : wop[i].start >= wres.end
              /\ WLive = {} => Len(wout) = wres.end
    /\ (rres.valid /\ rres.how = "dropped")
           => /\ BytesOf(rown, rres.id) = (rres.start + 1)..rres.end
              /\ rres.end <= rpos
              /\ \A i \in RLive : rop[i].start >= rres.end
              /\ RLive = {} => rpos = rres.end
    /\ \A i \in RLive :
           /\ rop[i].start = Len(rown) - Cardinality(BytesOf(rown, i))
           /\ (rop[i].after.valid /\ rop[i].after.how = "dropped")
                  => rop[i].start = rop[i].after.end
    /\ \A i \in WLive :
           /\ wop[i].start = Len(wown) - Cardinality(BytesOf(wown, i))
           /\ (wop[i].after.valid /\ wop[i].after.how = "dropped")
                  => wop[i].start = wop[i].after.end

(* a read dropped after it took 3 bytes of a length prefix, and the next *)
(* read on the half in progress from the 4th byte of the stream          *)
C7_Witness ==
    /\ BytesOf(rown, 1) = 1..3
    /\ \E i \in RLive :
           /\ rop[i].after.valid /\ rop[i].after.how = "dropped"
           /\ rop[i].start = 3 /\ rop[i].mid

----------------------------------------------------------------------------
(* Frames on the read stream *)

(* size in bytes of one element of a framed value of type ty *)
ElemSize(ty) == IF ty.k = "slice" THEN ty.w ELSE 1

(* offset of the last byte of the frame of type ty that starts at start *)
FrameEnd(ty, start) == start + WordSize + DeclaredLen(start) * ElemSize(ty)

(* the payload bytes of that frame *)
Payload(ty, start) == SubSeq(rwire, start + WordSize + 1, FrameEnd(ty, start))

(* C8: discriminator validation.  A completed decode of an optional value  *)
(* or an outcome whose discriminator byte is neither 0 nor 1 returned      *)
(* InvalidData; it took the discriminator byte and nothing else, and the   *)
(* poll that returned made one transport read, the one that brought the    *)
(* discriminator.                                                          *)
C8_DiscriminatorValidation ==
    (/\ ReadDone
     /\ rres.ty.k \in {"option", "result"}
     /\ rdel > rres.start
     /\ rwire[rres.start + 1] \notin {0, 1})
        => /\ rres.out = Err("InvalidData")
           /\ rres.end = rres.start + 1
           /\ rres.calls = 1

(* an outcome with discriminator 2 decoded after a poll that found nothing *)
C8_Witness ==
    /\ ReadDone
    /\ rres.ty.k = "result"
    /\ rwire[rres.start + 1] = 2
    /\ rres.starved
    /\ rres.out = Err("InvalidData")

----------------------------------------------------------------------------
(* C9: UTF-8 validation.  A completed decode of a string whose frame has   *)
(* arrived and whose payload is not valid UTF-8 returned InvalidData and   *)
(* took exactly the prefix and the declared payload bytes; the operation   *)
(* issued after it starts at the first byte after the frame and decodes    *)
(* what is there.                                                          *)
C9_Utf8Validation ==
    /\ (/\ ReadDone
        /\ rres.ty = StrTy
        /\ rdel >= rres.start + WordSize
        /\ rdel >= FrameEnd(StrTy, rres.start)
        /\ ~from_utf8(Payload(StrTy, rres.start)))
           => /\ rres.out = Err("InvalidData")
              /\ rres.end = FrameEnd(StrTy, rres.start)
              /\ RLive = {} => rpos = rres.end
    /\ \A i \in RLive :
           (/\ rop[i].after.valid
            /\ rop[i].after.ty = StrTy
            /\ rop[i].after.err = "InvalidData")
               => rop[i].start = rop[i].after.end
    /\ (/\ ReadDone
        /\ rres.after.valid
        /\ rres.after.ty = StrTy
        /\ rres.after.err = "InvalidData")
           => /\ rres.start = rres.after.end
              /\ SameOut(rres.out, AllAtOnce(rres.ty, rres.after.end).out)

(* the 2-byte integer behind a string frame holding C3 68 was read after *)
(* the string decode failed                                              *)
C9_Witness ==
    /\ ReadDone
    /\ rres.after.valid
    /\ rres.after.ty = StrTy
    /\ rres.after.err = "InvalidData"
    /\ rres.ty = IntTy(2)
    /\ rres.out = Ok(from_ne_bytes(TestTail))
    /\ rres.start = WordSize + 2

----------------------------------------------------------------------------
(* C10: truncated payload.  A completed decode of a byte buffer, a string  *)
(* or a primitive array whose length prefix arrived and whose stream was   *)
(* closed before the declared payload was complete returned                *)
(* UnexpectedEof, with every byte that had arrived taken and no value.     *)
C10_TruncatedPayload ==
    (/\ ReadDone
     /\ rres.ty.k \in {"bytes", "str", "slice"}
     /\ rclosed
     /\ rdel >= rres.start + WordSize
     /\ rdel < FrameEnd(rres.ty, rres.start))
        => /\ rres.out = Err("UnexpectedEof")
           /\ rres.end = rdel

(* a string declared 3 bytes long whose stream closed after 2 of them, *)
(* the 2 bytes having arrived over several polls                       *)
C10_Witness ==
    /\ ReadDone
    /\ rres.ty = StrTy
    /\ rclosed
    /\ rdel = rres.start + WordSize + 2
    /\ DeclaredLen(rres.start) = 3
    /\ rres.mid
    /\ rres.out = Err("UnexpectedEof")

----------------------------------------------------------------------------
(* Polls seen through the transport calls they made *)

(* the last call of a poll *)
LastCall(log) == log[Len(log)]

(* a call that ends a read: the transport's error, or no new byte *)
IsReadErr(c) == c.res = "Err"
IsEmptyRead(c) == c.res = "Ready" /\ c.n = 0

(* what a poll of a scalar decode returned, against its transport calls *)
ScalarDecodeErrors(r) ==
    /\ Len(r.tr.log) >= 1
    /\ \A k \in 1..(Len(r.tr.log) - 1) :
           r.tr.log[k].res = "Ready" /\ r.tr.log[k].n > 0
    /\ IsReadErr(LastCall(r.tr.log)) => r.out = Err(LastCall(r.tr.log).err)
    /\ IsEmptyRead(LastCall(r.tr.log)) => r.out = Err("UnexpectedEof")
    /\ r.out.tag = "Err" =>
           IsReadErr(LastCall(r.tr.log)) \/ IsEmptyRead(LastCall(r.tr.log))
    /\ "UnexpectedEof" \notin TransportErrors

(* C11: scalar decode errors.  In every poll of a 1-byte or multi-byte     *)
(* scalar decode, a transport call that returns an error ends the poll     *)
(* with that error, unchanged; a call that succeeds with no new byte       *)
(* before the width is filled ends it with UnexpectedEof; a call that      *)
(* returned an error is never reported as the end of the stream, the two   *)
(* being distinct kinds; and a decode fails in no other way.               *)
C11_ScalarDecodeErrors ==
    [][\A i \in 1..MaxOps, lim \in Lims :
           (PollRead(i, lim) /\ IsScalar(rop[i].ty)) =>
               ScalarDecodeErrors(de_poll_stage(rop[i].ty, rop[i].st,
                                                ReadTransport(lim)))]_vars

(* a 4-byte integer that had taken part of its bytes ended with the error *)
(* of the transport, on a stream the peer had also closed                 *)
C11_Witness ==
    /\ ReadDone
    /\ rres.ty = IntTy(4)
    /\ rres.mid /\ rres.end > rres.start
    /\ rclosed
    /\ rres.out = Err("BrokenPipe")

----------------------------------------------------------------------------
(* a call that accepted no byte of a non-empty buffer *)
IsZeroWrite(c) == c.res = "Ready" /\ c.n = 0 /\ c.buf # <<>>

(* the calls of one poll of write i, whose value encodes as enc: each call *)
(* offers bytes of enc that start at the offset the transport is at, a     *)
(* call that follows a partial accept offers all that the accept left,     *)
(* and a call that accepted nothing is the last and gives WriteZero        *)
WriteAttempts(i, enc, r) ==
    /\ \A k \in 1..Len(r.tw.log) :
           /\ r.tw.log[k].buf # <<>>
           /\ r.tw.log[k].buf
                  = SubSeq(enc, r.tw.log[k].at - wop[i].start + 1,
                           r.tw.log[k].at - wop[i].start + Len(r.tw.log[k].buf))
           /\ IsZeroWrite(r.tw.log[k]) =>
                  k = Len(r.tw.log) /\ r.out = Err("WriteZero")
           /\ (k < Len(r.tw.log) /\ r.tw.log[k].n < Len(r.tw.log[k].buf)) =>
                  /\ r.tw.log[k].n > 0
                  /\ r.tw.log[k + 1].buf
                         = From(r.tw.log[k].buf, r.tw.log[k].n + 1)
                  /\ r.tw.log[k + 1].at = r.tw.log[k].at + r.tw.log[k].n
    /\ r.out = Err("WriteZero") =>
           Len(r.tw.log) >= 1 /\ IsZeroWrite(LastCall(r.tw.log))
    /\ r.out = Ok(<<>>) => r.tw.out = SubSeq(wout, 1, wop[i].start) \o enc

(* C12: write zero.  In every poll of a write of any type, a transport     *)
(* call that accepts no byte of the non-empty buffer it is given ends the  *)
(* poll with WriteZero and is the last call; every call offers the bytes   *)
(* of the value's encoding that follow the bytes accepted so far, so that  *)
(* after a partial accept exactly the rest is offered again and a          *)
(* completed write has put each byte of the encoding on the wire once.     *)
C12_WriteZero ==
    [][\A i \in 1..MaxOps, lim \in Lims :
           PollWrite(i, lim) =>
               WriteAttempts(i, WrittenAtOnce(wop[i].ty, wop[i].val),
                             ser_poll_stage(wop[i].ty, wop[i].st,
                                            WriteTransport(lim)))]_vars

(* a byte buffer whose prefix and first payload bytes were accepted in *)
(* parts ended with WriteZero                                          *)
C12_Witness ==
    /\ WriteDone
    /\ wres.ty = BytesTy
    /\ wres.mid
    /\ wres.end > wres.start + WordSize
    /\ wres.end < wres.start + WordSize + Len(wres.val)
    /\ wres.out = Err("WriteZero")

----------------------------------------------------------------------------
(* C13: optional wrapper encoding.  A completed write of an absent         *)
(* optional put the single byte 0 on the wire, one of a present optional   *)
(* the byte 1 and then the encoding of the inner value.  A decode that     *)
(* found the byte 0 returned 'absent', having taken that byte only and     *)
(* made no transport call after the one that brought it; a decode that     *)
(* found 1 and completed returned 'present' with what the inner decode     *)
(* returns for the bytes that follow, and the peer's decode of a written   *)
(* optional returned the optional that was written.                        *)
C13_OptionEncoding ==
    /\ (WriteDone /\ wres.ty.k = "option" /\ wres.out.tag = "Ok")
           => Written = IF wres.val = None
                        THEN <<0>>
                        ELSE <<1>> \o WrittenAtOnce(wres.ty.t, wres.val[1])
    /\ (ReadDone /\ rres.ty.k = "option" /\ rwire[rres.start + 1] = 0)
           => /\ rres.out = Ok(None)
              /\ rres.end = rres.start + 1
              /\ rres.calls = 1
    /\ (ReadDone /\ rres.ty.k = "option" /\ rwire[rres.start + 1] = 1)
           => /\ rres.out.tag = "Ok"
              /\ rres.out.val
                     = Some(AllAtOnce(rres.ty.t, rres.start + 1).out.val)
              /\ rres.end = AllAtOnce(rres.ty.t, rres.start + 1).tr.pos
    /\ (ReadDone /\ WriteDone /\ wres.ty.k = "option")
           => rres.out = Ok(wres.val)

(* the present optional string 'é', written in parts, was read back in *)
(* parts by the peer                                                   *)
C13_Witness ==
    /\ ReadDone /\ WriteDone
    /\ wres.ty = OptionTy(StrTy)
    /\ wres.val = Some(<<195, 169>>)
    /\ wres.mid /\ rres.mid
    /\ rres.out = Ok(Some(<<195, 169>>))
    /\ rres.end = 1 + WordSize + 2

----------------------------------------------------------------------------
(* C14: two-variant outcome encoding.  A completed write of a success put  *)
(* the byte 1 and then the success type's encoding on the wire, one of a   *)
(* failure the byte 0 and then the failure type's encoding (the failure    *)
(* carrying the 1-byte value 7, success type 2-byte: 00 07).  A completed  *)
(* decode that found 1 returned a success holding what the success codec   *)
(* decodes from the bytes that follow, one that found 0 a failure holding  *)
(* what the failure codec decodes; the peer's decode of a written outcome  *)
(* returned the variant and the value that were written.                   *)
C14_ResultEncoding ==
    /\ (WriteDone /\ wres.ty.k = "result" /\ wres.out.tag = "Ok")
           => Written = IF wres.val[1] = "Ok"
                        THEN <<1>> \o WrittenAtOnce(wres.ty.t, wres.val[2])
                        ELSE <<0>> \o WrittenAtOnce(wres.ty.e, wres.val[2])
    /\ WrittenAtOnce(ResultTy(IntTy(2), U8), ResErr(<<7>>)) = <<0, 7>>
    /\ (ReadDone /\ rres.ty.k = "result" /\ rwire[rres.start + 1] = 1)
           => /\ rres.out.tag = "Ok"
              /\ rres.out.val
                     = ResOk(AllAtOnce(rres.ty.t, rres.start + 1).out.val)
              /\ rres.end = AllAtOnce(rres.ty.t, rres.start + 1).tr.pos
    /\ (ReadDone /\ rres.ty.k = "result" /\ rwire[rres.start + 1] = 0)
           => /\ rres.out.tag = "Ok"
              /\ rres.out.val
                     = ResErr(AllAtOnce(rres.ty.e, rres.start + 1).out.val)
              /\ rres.end = AllAtOnce(rres.ty.e, rres.start + 1).tr.pos
    /\ (ReadDone /\ WriteDone /\ wres.ty.k = "result")
           => rres.out = Ok(wres.val)

(* the failure carrying 7 went over the wire as 00 07, the second byte in *)
(* a later poll than the first on either side, and was read back          *)
C14_Witness ==
    /\ ReadDone /\ WriteDone
    /\ wres.ty = ResultTy(IntTy(2), U8)
    /\ wres.val = ResErr(<<7>>)
    /\ rwire = <<0, 7>>
    /\ wres.mid /\ rres.mid
    /\ rres.out = Ok(ResErr(<<7>>))

----------------------------------------------------------------------------
(* C15: primitive array framing.  A completed write of an array of n       *)
(* elements of width w put WordSize + n * w bytes on the wire: the prefix  *)
(* with value n (the element count), then the elements' bytes in order.    *)
(* A completed decode whose prefix declares n took WordSize + n * w bytes  *)
(* and returned n elements, element k being the k-th run of w payload      *)
(* bytes; the peer's decode of a written array returned the array.         *)
C15_PrimitiveArrayFraming ==
    /\ (WriteDone /\ wres.ty.k = "slice" /\ wres.out.tag = "Ok")
           => /\ wres.end - wres.start
                     = WordSize + Len(wres.val) * wres.ty.w
              /\ as_usize(from_ne_bytes(SubSeq(Written, 1, WordSize)))
                     = Len(wres.val)
              /\ From(Written, WordSize + 1)
                     = Concat([k \in 1..Len(wres.val) |->
                                  to_ne_bytes(wres.val[k])])
    /\ (ReadDone /\ rres.ty.k = "slice" /\ rres.out.tag = "Ok")
           => /\ rres.end - rres.start
                     = WordSize + DeclaredLen(rres.start) * rres.ty.w
              /\ Len(rres.out.val) = DeclaredLen(rres.start)
              /\ \A k \in 1..Len(rres.out.val) :
                     rres.out.val[k]
                         = from_ne_bytes(
                               SubSeq(rwire,
                                      rres.start + WordSize
                                          + (k - 1) * rres.ty.w + 1,
                                      rres.start + WordSize + k * rres.ty.w))
    /\ (ReadDone /\ WriteDone /\ wres.ty.k = "slice")
           => rres.out = Ok(wres.val)

(* the array of the two 2-byte elements 1122 and 3344 was written in parts *)
(* behind the prefix 2 and read back in parts                              *)
C15_Witness ==
    /\ ReadDone /\ WriteDone
    /\ wres.ty = SliceTy(2)
    /\ Len(wres.val) = 2
    /\ DeclaredLen(rres.start) = 2
    /\ wres.mid /\ rres.mid
    /\ rres.out = Ok(<<<<17, 34>>, <<51, 68>>>>)
    /\ rres.end = WordSize + 4

----------------------------------------------------------------------------
(* the string "hello" as its UTF-8 bytes *)
Hello == <<104, 101, 108, 108, 111>>

(* a read of type ty polled once on a closed stream holding wire *)
DecodeOf(ty, wire) ==
    de_poll_stage(ty, de_new(ty),
                  [wire |-> wire, pos |-> 0, avail |-> Len(wire),
                   eof |-> TRUE, err |-> "none", lim |-> 4 * WordSize,
                   calls |-> 0, log |-> <<>>])

(* C16: string framing.  A completed write of a string put on the wire     *)
(* the bytes that the write of the byte buffer holding its UTF-8 bytes     *)
(* puts; "hello" gives the WordSize-byte prefix 5 (05 00 00 00 00 00 00 00 *)
(* on the little-endian target) and then 68 65 6c 6c 6f; the peer's string *)
(* read of the bytes of a written string returned the string, and the      *)
(* string read of the bytes of "hello" returns "hello" having taken them   *)
(* all.                                                                    *)
C16_StringFraming ==
    /\ (WriteDone /\ wres.ty = StrTy /\ wres.out.tag = "Ok")
           => Written = WrittenAtOnce(BytesTy, wres.val)
    /\ WrittenAtOnce(StrTy, Hello) = to_ne_bytes(usize_of(5)) \o Hello
    /\ endian = "little"
           => WrittenAtOnce(StrTy, Hello)
                  = <<5, 0, 0, 0, 0, 0, 0, 0, 104, 101, 108, 108, 111>>
    /\ (ReadDone /\ WriteDone /\ wres.ty = StrTy)
           => rres.out = Ok(wres.val) /\ rres.end = Len(rwire)
    /\ DecodeOf(StrTy, WrittenAtOnce(StrTy, Hello)).out = Ok(Hello)
    /\ DecodeOf(StrTy, WrittenAtOnce(StrTy, Hello)).tr.pos = WordSize + 5

(* the string 'é' (2 bytes, 1 char) was written in parts behind the prefix *)
(* 2 and read back in parts as a string                                    *)
C16_Witness ==
    /\ ReadDone /\ WriteDone
    /\ wres.ty = StrTy /\ rres.ty = StrTy
    /\ wres.val = <<195, 169>>
    /\ DeclaredLen(rres.start) = 2
    /\ wres.mid /\ rres.mid
    /\ rres.out = Ok(<<195, 169>>)

----------------------------------------------------------------------------
IsCompound(ty) == ty.k \in {"bytes", "str", "slice", "option", "result"}

(* a call that ends a write: the transport's error *)
IsWriteErr(c) == c.res = "Err"

(* what a poll of a decode returned, against its transport calls: a call  *)
(* that failed is the last of the poll, and its error is what the poll    *)
(* returned; the only error that is not a call's is the validation's      *)
ReadPropagates(r) ==
    /\ \A k \in 1..Len(r.tr.log) :
           /\ IsReadErr(r.tr.log[k]) =>
                  k = Len(r.tr.log) /\ r.out = Err(r.tr.log[k].err)
           /\ IsEmptyRead(r.tr.log[k]) =>
                  k = Len(r.tr.log) /\ r.out = Err("UnexpectedEof")
    /\ (r.out.tag = "Err" /\ r.out.err # "InvalidData") =>
           /\ Len(r.tr.log) >= 1
           /\ IsReadErr(LastCall(r.tr.log)) \/ IsEmptyRead(LastCall(r.tr.log))

(* the same for an encode *)
WritePropagates(r) ==
    /\ \A k \in 1..Len(r.tw.log) :
           /\ IsWriteErr(r.tw.log[k]) =>
                  k = Len(r.tw.log) /\ r.out = Err(r.tw.log[k].err)
           /\ IsZeroWrite(r.tw.log[k]) =>
                  k = Len(r.tw.log) /\ r.out = Err("WriteZero")
    /\ r.out.tag = "Err" =>
           /\ Len(r.tw.log) >= 1
           /\ IsWriteErr(LastCall(r.tw.log)) \/ IsZeroWrite(LastCall(r.tw.log))

(* C17: error propagation.  In every poll of a compound operation (byte    *)
(* buffer, string, array, optional, outcome, read or written), when a      *)
(* transport call of whatever stage is in progress (length prefix,         *)
(* discriminator or payload) fails, the poll returns that stage's error    *)
(* as it is and makes no transport call after the failed one; the          *)
(* operation ends with that error in the step of this poll, at the offset  *)
(* the failed call left the transport at, and is not alive afterwards.     *)
C17_ErrorPropagation ==
    [][/\ \A i \in 1..MaxOps, lim \in Lims :
              (PollRead(i, lim) /\ IsCompound(rop[i].ty)) =>
                  /\ ReadPropagates(de_poll_stage(rop[i].ty, rop[i].st,
                                                  ReadTransport(lim)))
                  /\ rres'.valid =>
                         /\ ~rop'[i].alive
                         /\ rres'.out = de_poll_stage(rop[i].ty, rop[i].st,
                                                      ReadTransport(lim)).out
                         /\ rres'.end = rpos'
       /\ \A i \in 1..MaxOps, lim \in Lims :
              (PollWrite(i, lim) /\ IsCompound(wop[i].ty)) =>
                  /\ WritePropagates(ser_poll_stage(wop[i].ty, wop[i].st,
                                                    WriteTransport(lim)))
                  /\ wres'.valid =>
                         /\ ~wop'[i].alive
                         /\ wres'.out = ser_poll_stage(wop[i].ty, wop[i].st,
                                                       WriteTransport(lim)).out
                         /\ wres'.end = Len(wout')]_vars

(* the decode of an optional string ended with the error the transport *)
(* returned while the string's payload was being read                   *)
C17_Witness ==
    /\ ReadDone
    /\ rres.ty = OptionTy(StrTy)
    /\ rres.mid
    /\ rres.end > rres.start + 1 + WordSize
    /\ rres.out = Err("ConnectionReset")

----------------------------------------------------------------------------
(* the type of the payload behind the discriminator d of a value of the *)
(* optional or outcome type ty                                          *)
PayloadType(ty, d) == IF ty.k = "result" /\ d = 0 THEN ty.e ELSE ty.t

(* the string frame at offset start has arrived, was taken to its last *)
(* byte by the last read and holds no valid UTF-8                      *)
InvalidStringRead(start) ==
    /\ rdel >= start + WordSize
    /\ rdel >= FrameEnd(StrTy, start)
    /\ rres.end = FrameEnd(StrTy, start)
    /\ ~from_utf8(Payload(StrTy, start))

(* C18: validation errors come after the payload.  A decode that returned  *)
(* InvalidData is a string decode (bare, or behind the discriminator of an *)
(* optional or an outcome) that had taken the prefix and every payload     *)
(* byte the prefix declares, the payload being no valid UTF-8, or the      *)
(* decode of an optional or an outcome whose discriminator byte, the one   *)
(* byte it had taken, is neither 0 nor 1.  No decode returned InvalidData  *)
(* with a byte of a declared payload still to be read.                     *)
C18_ValidationAfterPayload ==
    (ReadDone /\ rres.out = Err("InvalidData")) =>
        \/ rres.ty = StrTy /\ InvalidStringRead(rres.start)
        \/ /\ rres.ty.k \in {"option", "result"}
           /\ rwire[rres.start + 1] \notin {0, 1}
           /\ rres.end = rres.start + 1
        \/ /\ rres.ty.k \in {"option", "result"}
           /\ rwire[rres.start + 1] \in {0, 1}
           /\ PayloadType(rres.ty, rwire[rres.start + 1]) = StrTy
           /\ InvalidStringRead(rres.start + 1)

(* a string whose first payload byte, FF, is no UTF-8 was reported invalid *)
(* once its 3 payload bytes were read, after a poll that had taken part of *)
(* the frame and one that found nothing to read                            *)
C18_Witness ==
    /\ ReadDone
    /\ rres.ty = StrTy
    /\ rres.out = Err("InvalidData")
    /\ Payload(StrTy, rres.start) = <<255, 104, 105>>
    /\ rres.mid /\ rres.starved
    /\ rres.end = rres.start + WordSize + 3

(* C19 as stated: either factory produces nothing when a handle it expects *)
(* is unavailable, and produces a wrapper only when both the read handle   *)
(* and the write handle are available                                      *)
C19_Original ==
    /\ (stream.by # "none" /\ ~(stream.had_r /\ stream.had_w)) => ~stream.some
    /\ stream.some => (stream.had_r /\ stream.had_w)

(* C19: connect_to_child produces a wrapper exactly when the child has *)
(* both its stdout (read) and its stdin (write) handle and produces    *)
(* nothing otherwise, leaving the child without the handles it took;   *)
(* parent_stream produces a wrapper whatever the state of the          *)
(* process's standard streams                                          *)
C19_FactoryOutcome ==
    /\ stream.by = "connect_to_child" =>
           /\ stream.some = (stream.had_r /\ stream.had_w)
           /\ ~child.stdout
           /\ stream.had_r => ~child.stdin
    /\ stream.by = "parent_stream" => stream.some

(* connect_to_child produced nothing for a child with stdout but no stdin *)
C19_Witness ==
    /\ stream = Made("connect_to_child", TRUE, FALSE, FALSE)
    /\ child = [stdout |-> FALSE, stdin |-> FALSE]

(* C20: on one direction of the adapter at most one request is queued in *)
(* the mailbox or being serviced by the worker at any time, so that a    *)
(* second request issued while one is outstanding is never accepted      *)
C20_SingleOutstanding == Outstanding <= 1

(* a request was accepted while the worker is servicing an earlier one, *)
(* and no misuse error was raised                                       *)
C20_SecondAccepted ==
    /\ Servicing
    /\ mailbox # <<>> /\ Head(mailbox).m = "Request"
    /\ fut = Head(mailbox).id
    /\ misuse = "none"

(* the step in which the worker thread ends *)
WorkerExits == worker.pc # "exited" /\ worker'.pc = "exited"

SameWrite ==
    /\ WriteDone /\ wres.out.tag = "Ok"
    /\ bwres.valid /\ bwres.ty = wres.ty /\ bwres.val = wres.val

(* both wrappers read, with the same type, the whole of the stream a *)
(* peer sent and then closed                                         *)
SameRead ==
    /\ SameStream
    /\ ReadDone /\ brres.valid /\ brres.ty = rres.ty
    /\ rres.start = 0

(* the wire bytes of the two wrappers' writes of one value are the same *)
MirrorWrites == SameWrite => Written = bout

(* each wrapper's read of what the other wrote returns the value written *)
MirrorReadsBack ==
    /\ (ReadDone /\ bwres.valid /\ rwire = bout /\ rres.ty = bwres.ty)
           => rres.out = Ok(bwres.val) /\ rres.end = Len(bout)
    /\ (brres.valid /\ WriteDone /\ brres.wire = wout /\ wout # <<>>)
           => brres.out = Ok(wres.val) /\ brres.end = Len(wout)

(* C22: blocking mirror equivalence.  For every scalar, byte buffer and *)
(* string the two wrappers' writes of a value put the same bytes on the *)
(* wire, each wrapper's read of the other's output returns the value,   *)
(* and on a stream a peer sent both reads return the same value or the  *)
(* same error kind: UnexpectedEof on a frame cut short, InvalidData on  *)
(* a whole frame that is not UTF-8                                      *)
C22_MirrorEquivalence ==
    /\ MirrorWrites
    /\ MirrorReadsBack
    /\ SameRead => SameOut(rres.out, brres.out)

(* both wrappers read as a string the frame of 'é' cut after its first *)
(* payload byte: the async read reports the end of the stream, the     *)
(* blocking read invalid data                                          *)
C22_Diverges ==
    /\ SameRead
    /\ rres.ty = StrTy
    /\ rwire = LenPrefixed(2, <<195>>)
    /\ rres.out = Err("UnexpectedEof")
    /\ brres.out = Err("InvalidData")

(* the last read is the first operation issued after the last peek *)
ReadAfterPeek == peeked.valid /\ ReadDone /\ rres.id = peeked.nops + 1

----------------------------------------------------------------------------
(* The memoizing stage of the length-prefixed operations *)

IsLenPrefixed(ty) == ty.k \in {"bytes", "str", "slice"}
IsTagged(ty) == ty.k \in {"option", "result"}

(* the offset of the length prefix from the start of the operation *)
PrefixAt(ty) == IF IsTagged(ty) THEN 1 ELSE 0

(* the payload type of the read stage st of type ty, and its stage *)
ReadLeafTy(ty, st) ==
    CASE ty.k = "option" -> ty.t
      [] ty.k = "result" -> IF st.state = "PendingE" THEN ty.e ELSE ty.t
      [] OTHER -> ty
ReadLeaf(ty, st) == IF IsTagged(ty) THEN st.inner ELSE st

(* read stage st of type ty holds a length stage *)
HasLenStage(ty, st) ==
    /\ IsTagged(ty) => st.state # "DiscriminatorPending"
    /\ IsLenPrefixed(ReadLeafTy(ty, st))

(* the length stage of read stage st; pending while there is none yet *)
ReadLenStage(ty, st) ==
    IF HasLenStage(ty, st) THEN ReadLeaf(ty, st).len_fut ELSE Stage_Pending(<<>>)
ReadFilled(ty, st) == IF HasLenStage(ty, st) THEN ReadLeaf(ty, st).filled ELSE 0

(* the payload type of the write stage st of type ty, and its stage *)
WriteLeafTy(ty, st) ==
    CASE ty.k = "option" -> ty.t
      [] ty.k = "result" -> IF st.tag = 0 THEN ty.e ELSE ty.t
      [] OTHER -> ty
WriteLeaf(ty, st) == IF IsTagged(ty) THEN st.data ELSE st
WritesLen(ty, st) ==
    /\ ty.k = "option" => st.tag = 1
    /\ IsLenPrefixed(WriteLeafTy(ty, st))

(* one poll of a read took the stage from S to T: a completed stage stays  *)
(* as it is and every byte of the poll goes to the payload; the stage is   *)
(* completed exactly when the whole prefix has been taken, with its value  *)
MemoRead(ty, S, T, at, filled, r) ==
    /\ S.done =>
          /\ T.done /\ T.val = S.val
          /\ r.tr.pos - rpos = filled
    /\ T.done <=> HasLenStage(ty, r.st) /\ r.tr.pos >= at + WordSize
    /\ T.done =>
          T.val = as_usize(from_ne_bytes(SubSeq(rwire, at + 1, at + WordSize)))

(* the same for one poll of a write *)
MemoWrite(S, T, at, r) ==
    /\ S.done =>
          /\ T.done /\ T.val = S.val
          /\ \A k \in 1..Len(r.tw.log) : r.tw.log[k].at >= at + WordSize
    /\ T.done <=> Len(r.tw.out) >= at + WordSize
    /\ T.done => T.val = <<>>

MemoReadPoll(ty, st, at, r) ==
    MemoRead(ty, ReadLenStage(ty, st), ReadLenStage(ty, r.st), at + PrefixAt(ty),
             ReadFilled(ty, r.st) - ReadFilled(ty, st), r)

MemoWritePoll(ty, st, at, r) ==
    WritesLen(ty, st) =>
        MemoWrite(WriteLeaf(ty, st).len_fut, WriteLeaf(ty, r.st).len_fut,
                  at + PrefixAt(ty), r)

(* C24: a length stage moves from pending to completed once, in the poll  *)
(* that transfers the last byte of the prefix, and never back; a poll     *)
(* that finds it completed leaves it and its cached value as they are and *)
(* spends every transport call on the payload                             *)
C24_MemoizingStage ==
    [][/\ \A i \in 1..MaxOps, lim \in Lims :
              PollRead(i, lim) =>
                  MemoReadPoll(rop[i].ty, rop[i].st, rop[i].start,
                               de_poll_stage(rop[i].ty, rop[i].st,
                                             ReadTransport(lim)))
       /\ \A i \in 1..MaxOps, lim \in Lims :
              PollWrite(i, lim) =>
                  MemoWritePoll(wop[i].ty, wop[i].st, wop[i].start,
                                ser_poll_stage(wop[i].ty, wop[i].st,
                                               WriteTransport(lim)))]_vars

(* a byte buffer of three bytes completed by a poll that made one         *)
(* transport call, after a poll that made no progress: the poll took the  *)
(* payload alone, the length came from the stage                          *)
C24_Witness ==
    /\ rres.valid /\ rres.how = "done" /\ rres.ty = BytesTy
    /\ rres.out.tag = "Ok" /\ Len(rres.out.val) = 3
    /\ rres.mid /\ rres.starved /\ rres.calls = 1
----------------------------------------------------------------------------
(* The states of the optional and outcome decoders *)

TaggedReads == {i \in 1..MaxOps : rop[i].alive /\ IsTagged(rop[i].ty)}

(* the payload state the discriminator d leads to, "none" if it has none *)
PayloadState(ty, d) ==
    CASE ty.k = "option" /\ d = 1 -> "Pending"
      [] ty.k = "result" /\ d = 1 -> "PendingT"
      [] ty.k = "result" /\ d = 0 -> "PendingE"
      [] OTHER -> "none"

(* one poll of a tagged read that started at offset at, from stage st to *)
(* r.st: a payload state is kept, and the poll is the poll of the        *)
(* payload stage alone; the discriminator state is left only for the     *)
(* payload state of the discriminator, which the first call of the poll  *)
(* took from the transport                                               *)
TaggedPoll(ty, st, at, r, payload) ==
    /\ st.state # "DiscriminatorPending" =>
          /\ r.st.state = st.state
          /\ r.st.inner = payload.st
          /\ r.tr = payload.tr
    /\ st.state = "DiscriminatorPending" /\ r.st.state # st.state =>
          /\ rpos = at
          /\ r.tr.log[1] = Call("Ready", 1, "none")
          /\ r.st.state = PayloadState(ty, rwire[at + 1])

(* C25: a live optional or outcome read is in DiscriminatorPending from   *)
(* its start until the poll that takes a payload-bearing discriminator,   *)
(* in a payload state from then on, and takes nothing but payload bytes   *)
(* in every poll it makes in a payload state                              *)
C25_DecodeStates ==
    /\ [](\A i \in TaggedReads :
             rop[i].st.state = "DiscriminatorPending" <=> rpos = rop[i].start)
    /\ [][\A i \in 1..MaxOps, lim \in Lims :
             PollRead(i, lim) /\ IsTagged(rop[i].ty) =>
                 TaggedPoll(rop[i].ty, rop[i].st, rop[i].start,
                            de_poll_stage(rop[i].ty, rop[i].st, ReadTransport(lim)),
                            IF rop[i].st.state = "DiscriminatorPending"
                            THEN <<>>
                            ELSE leaf_poll_stage(
                                     ReadLeafTy(rop[i].ty, rop[i].st),
                                     rop[i].st.inner, ReadTransport(lim)))]_vars

(* an optional string in its payload state, the length read and one of   *)
(* two payload bytes taken, after a poll that made no progress            *)
C25_Witness ==
    \E i \in TaggedReads :
        /\ rop[i].ty = OptionTy(StrTy) /\ rop[i].st.state = "Pending"
        /\ rop[i].st.inner.len_fut.done /\ rop[i].st.inner.filled = 1
        /\ rop[i].starved /\ rpos = rdel
----------------------------------------------------------------------------
(* Length before payload *)

LenReads == {i \in RLive : HasLenStage(rop[i].ty, rop[i].st)}
LenWrites ==
    {i \in WLive : /\ WritesLen(wop[i].ty, wop[i].st)
                   /\ IsTagged(wop[i].ty) => wop[i].st.completed_state_stage}

(* a live length-prefixed read whose prefix starts at offset at: while the *)
(* length is pending nothing is filled and the bytes taken are those of   *)
(* the prefix; after it the bytes taken are one prefix and what is filled *)
LenThenPayloadRead(L, at) ==
    IF L.len_fut.done
    THEN rpos = at + WordSize + L.filled
    ELSE L.filled = 0 /\ rpos = at + L.len_fut.ft.read

(* a live length-prefixed write of payload bytes all whose prefix starts  *)
(* at offset at: while the length is pending the payload is whole and the *)
(* bytes put are those of the prefix; after it the bytes put are one      *)
(* prefix and the payload bytes no longer held                            *)
LenThenPayloadWrite(L, at, all) ==
    IF L.len_fut.done
    THEN Len(wout) = at + WordSize + (Len(all) - Len(L.buf))
    ELSE L.buf = all /\ Len(wout) = at + L.len_fut.ft.written

(* a poll that found nothing to transfer: not yet, nothing moved, the *)
(* stage as it was                                                    *)
Spurious(st, r, moved) == r.out.tag = "Pending" /\ moved = 0 /\ r.st = st

(* C26: in a length-prefixed read or write the payload is not touched     *)
(* before the whole prefix is transferred, the bytes transferred are one  *)
(* prefix followed by payload, and a poll made while the transport has    *)
(* nothing new returns not yet and changes neither the bytes transferred  *)
(* nor the operation                                                      *)
C26_LengthBeforePayload ==
    /\ [](\A i \in LenReads :
             LenThenPayloadRead(ReadLeaf(rop[i].ty, rop[i].st),
                                rop[i].start + PrefixAt(rop[i].ty)))
    /\ [](\A i \in LenWrites :
             LenThenPayloadWrite(WriteLeaf(wop[i].ty, wop[i].st),
                                 wop[i].start + PrefixAt(wop[i].ty),
                                 WriteLeaf(wop[i].ty,
                                           ser_new(wop[i].ty, wop[i].val)).buf))
    /\ [][/\ \A i \in LenReads, lim \in Lims :
                 (PollRead(i, lim) /\ rdel = rpos /\ ~rclosed /\ rfail = "none")
                     => Spurious(rop[i].st,
                                 de_poll_stage(rop[i].ty, rop[i].st,
                                               ReadTransport(lim)),
                                 rpos' - rpos)
          /\ \A i \in LenWrites, lim \in Lims :
                 (PollWrite(i, lim) /\ wroom = 0 /\ wfail = "none")
                     => Spurious(wop[i].st,
                                 ser_poll_stage(wop[i].ty, wop[i].st,
                                                WriteTransport(lim)),
                                 Len(wout') - Len(wout))]_vars

(* a byte buffer of three bytes being written: the prefix and two payload *)
(* bytes are out, one byte is held, and a poll found no room              *)
C26_Witness ==
    \E i \in LenWrites :
        /\ wop[i].ty = BytesTy /\ Len(wop[i].val) = 3
        /\ wop[i].st.len_fut.done /\ Len(wop[i].st.buf) = 1
        /\ wop[i].starved /\ wroom = 0
----------------------------------------------------------------------------
(* The cursor of the multi-byte integer stages *)

HasCursor(ty) == ty.k \in {"int", "float"}
CursorReads == {i \in RLive : HasCursor(rop[i].ty)}
CursorWrites == {i \in WLive : HasCursor(wop[i].ty)}

(* the bytes the transport calls of a poll accepted, by its log *)
Accepted(log) == SumSeq([k \in 1..Len(log) |-> log[k].n])

(* one poll took the cursor from c to d in a stage of w bytes: d is in    *)
(* range and not below c, the growth is what the calls of the poll       *)
(* accepted, which is what the transport moved, and the poll completed    *)
(* exactly when d = w                                                     *)
CursorPoll(w, c, d, log, moved, out) ==
    /\ 0 <= c /\ c <= d /\ d <= w
    /\ d - c = Accepted(log)
    /\ d - c = moved
    /\ out.tag = "Ok" <=> d = w

(* C27: the cursor of a live multi-byte integer read or write is between  *)
(* 0 and the width and is the number of bytes the operation has moved so  *)
(* far; no step lowers it, only a poll of the operation changes it, and a *)
(* poll raises it by what its transport calls accepted and completes      *)
(* exactly when it reaches the width                                      *)
C27_IntegerCursor ==
    /\ [](\A i \in CursorReads :
             /\ 0 <= rop[i].st.read /\ rop[i].st.read <= rop[i].ty.w
             /\ rop[i].st.read = rpos - rop[i].start)
    /\ [](\A i \in CursorWrites :
             /\ 0 <= wop[i].st.written /\ wop[i].st.written <= wop[i].ty.w
             /\ wop[i].st.written = Len(wout) - wop[i].start)
    /\ [][/\ \A i \in CursorReads, lim \in Lims :
                 PollRead(i, lim) =>
                     CursorPoll(rop[i].ty.w, rop[i].st.read,
                                de_poll_stage(rop[i].ty, rop[i].st,
                                              ReadTransport(lim)).st.read,
                                de_poll_stage(rop[i].ty, rop[i].st,
                                              ReadTransport(lim)).tr.log,
                                rpos' - rpos,
                                de_poll_stage(rop[i].ty, rop[i].st,
                                              ReadTransport(lim)).out)
          /\ \A i \in CursorWrites, lim \in Lims :
                 PollWrite(i, lim) =>
                     CursorPoll(wop[i].ty.w, wop[i].st.written,
                                ser_poll_stage(wop[i].ty, wop[i].st,
                                               WriteTransport(lim)).st.written,
                                ser_poll_stage(wop[i].ty, wop[i].st,
                                               WriteTransport(lim)).tw.log,
                                Len(wout') - Len(wout),
                                ser_poll_stage(wop[i].ty, wop[i].st,
                                               WriteTransport(lim)).out)
          /\ \A i \in CursorReads :
                 rop'[i].alive =>
                     /\ rop'[i].st.read >= rop[i].st.read
                     /\ rop'[i].st.read # rop[i].st.read
                            => \E lim \in Lims : PollRead(i, lim)
          /\ \A i \in CursorWrites :
                 wop'[i].alive =>
                     /\ wop'[i].st.written >= wop[i].st.written
                     /\ wop'[i].st.written # wop[i].st.written
                            => \E lim \in Lims : PollWrite(i, lim)]_vars

(* an 8-byte integer read with three bytes taken, after a poll that found *)
(* nothing to read, and nothing to read now                               *)
C27_Witness ==
    \E i \in CursorReads :
        /\ rop[i].ty = IntTy(WordSize) /\ rop[i].st.read = 3
        /\ rop[i].starved /\ rpos = rdel
----------------------------------------------------------------------------
(* Suspension points *)

(* the bytes a leaf read of type ty takes in all, as far as its stage L *)
(* knows: the payload counts once the length is known                   *)
LeafNeed(ty, L) ==
    CASE ty.k = "byte" -> 1
      [] HasCursor(ty) -> ty.w
      [] OTHER -> WordSize + (IF L.len_fut.done
                              THEN L.len_fut.val * ElemSize(ty) ELSE 0)

(* the same for a read of any type: the discriminator, and the payload *)
(* once the stage is in a payload state                                *)
ReadNeed(ty, st) ==
    IF IsTagged(ty)
    THEN 1 + (IF st.state = "DiscriminatorPending" THEN 0
              ELSE LeafNeed(ReadLeafTy(ty, st), st.inner))
    ELSE LeafNeed(ty, st)

(* a poll that made the transport calls of log and returned out, with   *)
(* left bytes still to transfer when it began: only the last call may   *)
(* have returned not yet, it did exactly when the poll returned not yet, *)
(* and there is at most one call per byte left                           *)
Suspends(log, out, left) ==
    /\ \A k \in 1..Len(log) : log[k].res = "Pending" => k = Len(log)
    /\ out.tag = "Pending"
          <=> (log # <<>> /\ log[Len(log)].res = "Pending")
    /\ Len(log) <= left

SuspendsRead(ty, at, r) ==
    Suspends(r.tr.log, r.out, ReadNeed(ty, r.st) - (rpos - at))

SuspendsWrite(ty, val, at, r) ==
    Suspends(r.tw.log, r.out, Len(WrittenAtOnce(ty, val)) - (Len(wout) - at))

(* C28: a poll returns not yet exactly when its last transport call did, *)
(* makes no call after one that returned not yet, and makes at most one  *)
(* transport call per byte the operation had still to transfer           *)
C28_SuspensionPoints ==
    [][/\ \A i \in 1..MaxOps, lim \in Lims :
              PollRead(i, lim) =>
                  SuspendsRead(rop[i].ty, rop[i].start,
                               de_poll_stage(rop[i].ty, rop[i].st,
                                             ReadTransport(lim)))
       /\ \A i \in 1..MaxOps, lim \in Lims :
              PollWrite(i, lim) =>
                  SuspendsWrite(wop[i].ty, wop[i].val, wop[i].start,
                                ser_poll_stage(wop[i].ty, wop[i].st,
                                               WriteTransport(lim)))]_vars

(* a byte buffer of three bytes with two of them filled and nothing more *)
(* to take from a transport that is open: the poll that filled them      *)
(* returned not yet                                                      *)
C28_Witness ==
    \E i \in LenReads :
        /\ rop[i].ty = BytesTy /\ rop[i].st.len_fut.done
        /\ rop[i].st.data_len = 3 /\ rop[i].st.filled = 2
        /\ rpos = rdel /\ ~rclosed /\ rfail = "none"
----------------------------------------------------------------------------
(* Bulk fill *)

(* the payload a read of type ty returned in val, as its bytes *)
LeafBytes(lty, val) == IF lty.k = "slice" THEN Concat(val) ELSE val
PayloadBytes(ty, val) ==
    CASE ty.k = "option" -> LeafBytes(ty.t, val[1])
      [] ty.k = "result" ->
             LeafBytes(IF val[1] = "Ok" THEN ty.t ELSE ty.e, val[2])
      [] OTHER -> LeafBytes(ty, val)

Initialized(bytes) == \A k \in 1..Len(bytes) : bytes[k] # Uninit

(* a poll of a length-prefixed read with prefix at offset at left the    *)
(* leaf stage L of payload type lty and returned out: filled is within   *)
(* the declared size; the storage is returned only full, with the        *)
(* declared size and every byte written; otherwise nothing is returned   *)
(* and the stage keeps the storage that is not yet full                  *)
BulkFill(ty, lty, L, at, out) ==
    /\ L.len_fut.done =>
          /\ L.len_fut.val = DeclaredLen(at)
          /\ L.filled <= DeclaredLen(at) * ElemSize(lty)
    /\ out.tag = "Ok" =>
          /\ L.len_fut.done
          /\ L.filled = DeclaredLen(at) * ElemSize(lty)
          /\ Len(PayloadBytes(ty, out.val)) = L.filled
          /\ Initialized(PayloadBytes(ty, out.val))
    /\ out.tag # "Ok" =>
          /\ out.val = <<>>
          /\ (L.len_fut.done /\ L.filled < DeclaredLen(at) * ElemSize(lty))
                 => Len(L.data) = DeclaredLen(at) * ElemSize(lty)

BulkFillPoll(ty, at, r) ==
    HasLenStage(ty, r.st) =>
        BulkFill(ty, ReadLeafTy(ty, r.st), ReadLeaf(ty, r.st),
                 at + PrefixAt(ty), r.out)

(* C29: a byte buffer, string or primitive array read returns its        *)
(* storage only when the filled count is the declared size in bytes, and *)
(* then every byte of it was written by the transport; a poll that       *)
(* returns not yet or an error returns no storage, a dropped read        *)
(* returned none, and the filled count never exceeds the declared size   *)
C29_BulkFill ==
    /\ [](rres.valid /\ rres.how = "dropped" => rres.out = Pending)
    /\ [](\A i \in LenReads :
             ReadLeaf(rop[i].ty, rop[i].st).filled
                 <= Len(ReadLeaf(rop[i].ty, rop[i].st).data))
    /\ [][\A i \in 1..MaxOps, lim \in Lims :
             PollRead(i, lim) =>
                 BulkFillPoll(rop[i].ty, rop[i].start,
                              de_poll_stage(rop[i].ty, rop[i].st,
                                            ReadTransport(lim)))]_vars

(* an array of two 2-byte elements returned by a poll that made one      *)
(* transport call, after polls that filled part of it and a poll that    *)
(* found nothing to read                                                 *)
C29_Witness ==
    /\ ReadDone /\ rres.ty = SliceTy(2)
    /\ rres.out.tag = "Ok" /\ Len(rres.out.val) = 2
    /\ rres.mid /\ rres.starved /\ rres.calls = 1
----------------------------------------------------------------------------
(* The discriminator of a written optional or outcome *)

TaggedWrites == {i \in WLive : IsTagged(wop[i].ty)}

IsPrefix(a, b) == Len(a) <= Len(b) /\ SubSeq(b, 1, Len(a)) = a

(* the transport calls of one poll of a write whose bytes in all are W,  *)
(* begun at offset at: each call offers bytes of W from the place it    *)
(* writes at, so the discriminator is offered at the first place only   *)
(* and payload bytes only after it                                       *)
OffersInOrder(log, at, W) ==
    \A k \in 1..Len(log) :
        /\ log[k].buf # <<>>
        /\ log[k].at >= at
        /\ IsPrefix(log[k].buf, From(W, log[k].at - at + 1))
        /\ log[k].at = at => Len(log[k].buf) = 1

(* C30: a live optional or outcome write has its discriminator stage     *)
(* marked done exactly when one byte or more is out, the first byte out  *)
(* is the discriminator of the value, and every transport call of every  *)
(* poll offers the bytes of the encoding that belong at the place it     *)
(* writes at: the discriminator alone at the first place, however often  *)
(* the call returns not yet, and payload bytes after it                  *)
C30_DiscriminatorOnce ==
    /\ [](\A i \in TaggedWrites :
             /\ wop[i].st.completed_state_stage <=> Len(wout) > wop[i].start
             /\ wop[i].st.completed_state_stage
                    => wout[wop[i].start + 1] = wop[i].st.tag)
    /\ [][\A i \in 1..MaxOps, lim \in Lims :
             PollWrite(i, lim) /\ IsTagged(wop[i].ty) =>
                 OffersInOrder(ser_poll_stage(wop[i].ty, wop[i].st,
                                              WriteTransport(lim)).tw.log,
                               wop[i].start,
                               WrittenAtOnce(wop[i].ty, wop[i].val))]_vars

(* an outcome carrying a 2-byte integer: the discriminator and one       *)
(* payload byte are out, a poll found no room, and there is none now     *)
C30_Witness ==
    \E i \in TaggedWrites :
        /\ wop[i].ty = ResultTy(IntTy(2), U8) /\ wop[i].st.tag = 1
        /\ wop[i].st.completed_state_stage /\ wop[i].st.data.written = 1
        /\ wop[i].starved /\ wroom = 0
----------------------------------------------------------------------------
(* The mailbox of the thread-bridged adapters *)

(* signals whose future was dropped before it completed *)
DroppedEarly == {k \in 1..Len(sig) : sig[k] \in {"closed", "lost"}}

(* C31: whenever recv() or send() is called the mailbox has a free slot: *)
(* no request is ever refused as Full, whether the earlier futures were  *)
(* completed or dropped                                                  *)
C31_NeverFull == misuse # "Full"

(* recv() found the mailbox full: the request of a future that was *)
(* dropped is still in it, the worker not having taken it          *)
C31_FullAfterDrop ==
    /\ misuse = "Full" /\ dir = "recv"
    /\ Len(mailbox) = 1 /\ Head(mailbox).m = "Request"
    /\ Head(mailbox).id \in DroppedEarly
(* the step in which the adapter is dropped *)
AdapterDropped == handle /\ ~handle'

(* C32: when an adapter is dropped the mailbox accepts the Shutdown *)
(* sentinel: the drop leaves it at the end of the mailbox           *)
C32_SentinelAccepted ==
    [][AdapterDropped => mailbox' = Append(mailbox, Shutdown)]_vars

(* the adapter is gone, the worker waits on a mailbox that is full of *)
(* the requests of dropped futures and holds no sentinel              *)
C32_SentinelRefused ==
    /\ ~handle /\ worker.pc = "waiting"
    /\ Len(mailbox) = Capacity(dir)
    /\ \A k \in 1..Len(mailbox) :
           mailbox[k].m = "Request" /\ mailbox[k].id \in DroppedEarly
----------------------------------------------------------------------------
(* Completion of the adapter futures *)

(* how many messages the servicing of request k moved through the channel *)
Moves(k) ==
    Cardinality({j \in 1..Len(channel.moved) : channel.moved[j] = k})

(* a value was sent on the signal of request k *)
Answered(k) == sig[k] \in {"sent", "done", "lost"}

(* the worker ends the servicing of request k in this step *)
WorkerEnds(k) == worker.req = k /\ worker'.req = 0

(* C33: the future that borrows the adapter has a signal that is open or *)
(* holds a value, never one closed without a value; a value is put on    *)
(* the signal of a request once, by the worker as it ends the servicing  *)
(* of that request, and is the outcome of the one message that servicing *)
(* moved (or the error of a channel whose peer is gone); a future that   *)
(* has returned its value returned it once                               *)
C33_OwnResult ==
    /\ [](fut # 0 => sig[fut] \in {"open", "sent"})
    /\ [](misuse # "Died")
    /\ [](\A k \in 1..Len(sig) :
             Answered(k) => Moves(k) = 1 \/ (Moves(k) = 0 /\ channel.closed))
    /\ [][\A k \in 1..Len(sig) :
             /\ (~Answered(k) /\ Answered(k)') => WorkerEnds(k)
             /\ Moves(k)' # Moves(k) => (WorkerEnds(k) /\ Answered(k)')
             /\ sig[k] = "done" => sig'[k] = "done"
             /\ sig'[k] = "done" =>
                    sig[k] = "done" \/ (sig[k] = "sent" /\ fut = k)]_vars

(* on the receiver the second future returned its message after the *)
(* first was dropped                                                *)
C33_Witness ==
    /\ dir = "recv" /\ Len(sig) = 2
    /\ sig[1] = "closed" /\ sig[2] = "done"
    /\ channel.moved = <<2>>

----------------------------------------------------------------------------
(* Eventual completion *)

(* C34: over a transport that receives every byte of the stream and makes *)
(* room for every byte of a write in the end, with the task polled when   *)
(* it is woken, an awaited read returns in the end what the decode of the *)
(* whole stream returns, and an awaited write returns Ok in the end with  *)
(* the whole encoding written; and the poll made when every byte the      *)
(* value takes has been received, or has room, is not Pending             *)
C34_EventualCompletion ==
    /\ (task.kind = "read") ~>
           (/\ task.kind = "read" /\ task.pc = "done"
            /\ SameOut(TaskRead.out, AllAtOnce(task.ty, 0).out))
    /\ (task.kind = "write") ~>
           (/\ task.kind = "write" /\ task.pc = "done"
            /\ TaskWrite.out = Ok(<<>>)
            /\ wout = WrittenAtOnce(task.ty, TestWrites[task.w].val))
    /\ [][/\ (RunRead /\ rdel >= AllAtOnce(task.ty, 0).tr.pos)
                 => task'.pc = "done"
          /\ (/\ RunWrite
              /\ Len(wout) + wroom
                     >= Len(WrittenAtOnce(task.ty, TestWrites[task.w].val)))
                 => task'.pc = "done"]_vars

(* the string of the three bytes of one character, returned after a first *)
(* poll that found nothing to read and polls that took a part of it       *)
C34_Witness ==
    /\ task.kind = "read" /\ task.ty = StrTy /\ task.pc = "done"
    /\ Len(task.polls) >= 4
    /\ task.polls[1] = 0
    /\ TaskRead.out = Ok(<<226, 130, 172>>)
----------------------------------------------------------------------------
(* Delivery through the buffered write half *)

RECURSIVE Encodings(_)
(* the encodings of the values of calls, one after the other *)
Encodings(calls) ==
    IF calls = <<>> THEN <<>>
    ELSE WrittenAtOnce(TestWrites[Head(calls)].ty, TestWrites[Head(calls)].val)
             \o Encodings(Tail(calls))

RECURSIVE PeerReads(_, _)
(* the peer's typed reads of the values of calls, in order, from offset *)
(* start of what has reached the transport: what each returns           *)
PeerReads(calls, start) ==
    IF calls = <<>> THEN <<>>
    ELSE LET rest(r) == <<r.out>> \o PeerReads(Tail(calls), r.tr.pos)
         IN  rest(AllAtOnce(TestWrites[Head(calls)].ty, start))

(* C35: whatever the BufWriter has taken is held or has reached the      *)
(* transport, in order and once; and once the typed writes have          *)
(* completed and a flush after them has returned Ok, the transport has   *)
(* the encodings of their values in call order and nothing else, and the *)
(* peer's typed reads in the same order return the values                *)
C35_BufferedDelivery ==
    /\ rwire \o wbuf = wout
    /\ wflush = "Ok" =>
           /\ WLive = {}
           /\ rwire = Encodings(wcalls)
           /\ \A k \in 1..Len(wcalls) :
                  PeerReads(wcalls, 0)[k] = Ok(TestWrites[wcalls[k]].val)

(* the 2-byte integer and then the three-byte string were written and *)
(* flushed, the string in polls that found the BufWriter not ready    *)
C35_Witness ==
    /\ wflush = "Ok"
    /\ Len(wcalls) = 2
    /\ TestWrites[wcalls[1]].ty = IntTy(2)
    /\ TestWrites[wcalls[2]].ty = StrTy
    /\ TestWrites[wcalls[2]].val = <<226, 130, 172>>
    /\ wres.valid /\ wres.mid /\ wres.starved
----------------------------------------------------------------------------
(* Empty payload *)

(* live read i is of a buffer, string or array whose prefix declares 0 *)
EmptyRead(i) ==
    /\ rop[i].alive
    /\ IsLenPrefixed(rop[i].ty)
    /\ rop[i].start + WordSize <= Len(rwire)
    /\ DeclaredLen(rop[i].start) = 0

(* the poll r of it takes no byte after the prefix, and when it takes the *)
(* last byte of the prefix it returns the empty value, the call that took *)
(* that byte being its last call on the transport                         *)
EmptyDecoded(i, r) ==
    /\ r.tr.pos <= rop[i].start + WordSize
    /\ r.out.tag = "Ok" => r.tr.pos = rop[i].start + WordSize
    /\ r.tr.pos = rop[i].start + WordSize =>
           /\ r.out = Ok(<<>>)
           /\ r.tr.log # <<>>
           /\ r.tr.log[Len(r.tr.log)].res = "Ready"
           /\ r.tr.log[Len(r.tr.log)].n > 0

(* live write i is of an empty buffer or string *)
EmptyWrite(i) ==
    /\ wop[i].alive
    /\ IsLenPrefixed(wop[i].ty)
    /\ wop[i].val = <<>>

(* every transport call of the poll r of it offers what is left of the *)
(* prefix, and when it returns Ok the prefix is all it put on the wire *)
EmptyEncoded(i, r) ==
    /\ \A k \in 1..Len(r.tw.log) :
           /\ r.tw.log[k].buf # <<>>
           /\ r.tw.log[k].at + Len(r.tw.log[k].buf) = wop[i].start + WordSize
    /\ r.out.tag = "Ok" =>
           SubSeq(r.tw.out, wop[i].start + 1, Len(r.tw.out))
               = to_ne_bytes(usize_of(0))

(* C36: a read of a byte buffer, string or primitive array whose length *)
(* prefix is 0 returns the empty value as soon as the prefix is read and *)
(* makes no transport call after it, whether or not the stream has      *)
(* ended there; a write of an empty buffer makes transport calls for    *)
(* the prefix only and puts nothing but the prefix on the wire          *)
C36_EmptyPayload ==
    [][/\ \A i \in 1..MaxOps, lim \in Lims :
              (PollRead(i, lim) /\ EmptyRead(i))
                  => EmptyDecoded(i, de_poll_stage(rop[i].ty, rop[i].st,
                                                   ReadTransport(lim)))
       /\ \A i \in 1..MaxOps, lim \in Lims :
              (PollWrite(i, lim) /\ EmptyWrite(i))
                  => EmptyEncoded(i, ser_poll_stage(wop[i].ty, wop[i].st,
                                                    WriteTransport(lim)))]_vars

(* the empty array was returned from a stream that ended right after *)
(* its length prefix                                                 *)
C36_Witness ==
    /\ ReadDone /\ rres.ty = SliceTy(2)
    /\ rres.out = Ok(<<>>)
    /\ rres.end = rres.start + WordSize
    /\ rclosed /\ rdel = rres.end
    /\ rres.mid
----------------------------------------------------------------------------
(* No loss on receive *)

(* C37: every message the receive worker removes from the channel is, or *)
(* is still to be, the result of a receive future: the one-shot signal   *)
(* of the request that removed it holds it or has handed it over, and    *)
(* never let it go with its future gone                                  *)
C37_NoLoss ==
    dir = "recv" =>
        \A k \in 1..Len(sig) : Moves(k) = 1 => sig[k] \in {"sent", "done"}

(* the worker saw the signal open, the future was dropped, and the *)
(* message the worker then removed went to a signal nobody holds   *)
C37_LostAfterDrop ==
    /\ dir = "recv"
    /\ Len(sig) = 2
    /\ channel.moved = <<1>>
    /\ sig[1] = "lost"
    /\ fut = 2 /\ sig[2] = "open"
    /\ channel.n = 0
----------------------------------------------------------------------------
(* Send order *)

(* send() number k put its message in the mailbox *)
Enqueued(k) == k <= Len(sig) /\ sig[k] # "gone"

(* C38: the sender's worker transmits the messages of the send() calls *)
(* in call order and each at most once, and the message of every call  *)
(* that enqueued one is transmitted in the end, its future dropped or  *)
(* not, unless the peer has disconnected                               *)
C38_SendOrder ==
    /\ [](dir = "send" =>
             \A a, b \in 1..Len(channel.moved) :
                 a < b => channel.moved[a] < channel.moved[b])
    /\ \A k \in 1..MaxReq :
           (dir = "send" /\ Enqueued(k)) ~> (Moves(k) = 1 \/ channel.closed)

(* the first message was transmitted after its future had been dropped, *)
(* and before the second                                                *)
C38_Witness ==
    /\ dir = "send"
    /\ channel.moved = <<1, 2>>
    /\ sig[1] = "lost"
    /\ sig[2] = "done"
    /\ ~channel.closed
----------------------------------------------------------------------------
(* The child's handles after a failed connect_to_child *)

(* C39: a connect_to_child that produces nothing leaves the child's *)
(* handles as they were: the handle that was available before the   *)
(* call is still available after it                                 *)
C39_FailedCallKeepsHandles ==
    [][(connect_to_child /\ ~stream'.some) => child' = child]_vars

(* connect_to_child produced nothing and the child's stdout handle, *)
(* available at the call, is gone                                   *)
C39_StdoutTaken ==
    /\ stream.by = "connect_to_child"
    /\ ~stream.some
    /\ stream.had_r /\ ~stream.had_w
    /\ ~child.stdout
====================================================================
